---- MODULE Spec2Model ----
(***************************************************************************)
(* A model of the probe, batch and scoring code of the speed-test bot:     *)
(*   src/speedtester.py           RealSpeedTester                          *)
(*   src/advanced_speedtester.py  AdvancedSpeedTester                      *)
(*   src/platform_unlock_tester.py PlatformUnlockTester (summary only)     *)
(*                                                                         *)
(* Units.  The code rounds milliseconds and MB/s to two decimals and       *)
(* percentages to one decimal.  The model keeps them as integers:          *)
(*   latency, jitter, first byte latency : hundredths of a millisecond     *)
(*   download speed                      : hundredths of a "mbps" unit     *)
(*   packet loss, unlock rate            : tenths of a percent             *)
(* A dict key that is missing is the value Absent; dict.get(key, default)  *)
(* is Get(value, default).                                                 *)
(***************************************************************************)
EXTENDS Integers, Sequences, FiniteSets, TLC

VARIABLES
    \* --- RealSpeedTester.test_multiple_nodes and its probes -------------
    numNodes,        \* len(nodes); the nodes are 1..numNodes, in list order
    max_workers,     \* the max_workers argument
    pc,              \* where the caller is: "idle", "direct" (a direct call
                     \* of test_node_comprehensive), "submit", "collecting",
                     \* "unwinding" (TimeoutError in flight, executor
                     \* shutting down), "returned", "raised"
    phase,           \* per node: "none"; in the pool "queued", "running";
                     \* called directly "connectivity", "measure"; then
                     \* "done" (returned) or "raised"
    probeResult,     \* per node: the result dict of its probe
    started,         \* per node: the sub-probes started, in order
    yielded,         \* the futures as_completed has yielded
    results,         \* the list `results`
    deadlineHit,     \* as_completed raised TimeoutError
    unstartedAtDeadline, \* the nodes still queued at that moment
    workerTask,      \* per worker thread of the pool: the node whose probe
                     \* it is running, 0 when it waits for a work item
    \* --- AdvancedSpeedTester.comprehensive_test on one node -------------
    advPhase,        \* "idle", "connectivity", "speed", "latency",
                     \* "unlock", "done"
    advResult,       \* the result dict
    advStarted,      \* the sub-probes started, in order
    \* --- the scoring functions applied to one result dict ---------------
    scoreTester,     \* "real" | "advanced": whose scoring function is applied
    scoreInput,      \* the result dict handed to the scoring function
    scored,          \* TRUE once the scoring function has returned
    qualityScore,    \* the value it returned
    overallStatus,   \* _get_status_by_score of it ("none": not applied)
    \* --- _get_status_by_score walked over the scores -------------------
    bucketScore,     \* the score being mapped
    bucketStatus,    \* the status it maps to
    \* --- parser.parse_single_node applied to one link -------------------
    linkParts,       \* what the author of the link wrote it from
    inputLink,       \* the link, a str
    parseDone,       \* TRUE once parse_single_node has returned
    parsed,          \* what it returned
    \* --- a subscription URL resolved: parser.parse_subscription_link or
    \* --- SubscriptionAnalyzer.analyze_subscription ----------------------
    subResolver,     \* which of the two functions is called
    subFetch,        \* how the HTTP request ends
    subLines,        \* the lines the provider wrote the body from
    subEncoded,      \* TRUE when the body is the base64 of those lines
    subPc,           \* "idle", "fetch", "content", "lines", "done"
    subContent,      \* the text handed to the content parser
    subPending,      \* the lines not yet looked at
    subNodes,        \* the list `nodes`
    subSkipLog,      \* the "Failed to parse line" records logged
    subOutcome,      \* what the function returned
    \* --- the throughput probe of one tester walking its endpoints -------
    speedTester,     \* "real": test_http_speed_direct; "advanced":
                     \* _multi_thread_speed_test
    urlOutcomes,     \* per endpoint: what an attempt on it measures
    speedDone,       \* TRUE once the probe has returned
    urlsAttempted,   \* how many endpoints it attempted
    speedBest,       \* the speed it returned (Absent: every attempt failed)
    \* --- AdvancedSpeedTester._latency_stability_test on its own ----------
    stabPc,          \* "idle", "probing", "done"
    stabSamples,     \* per connect made so far: its latency, Absent when
                     \* it failed or timed out
    stabReport,      \* the dict it returned
    \* --- one connectivity test: test_tcp_connectivity of speedtester.py
    \* --- or _test_connectivity of advanced_speedtester.py ---------------
    connTester,      \* "real" | "advanced": whose connectivity test runs
    connHost,        \* the server argument: "ip", or a host name, "name"
    connPc,          \* "idle", "resolve", "connect", "geo", "done"
    connTrace,       \* the steps taken, in order
    connEvent,       \* how the resolve-and-connect ended ("none": not yet)
    connLatency,     \* the local `latency`: the time the connect took
    connResult,      \* the dict returned
    \* --- one throughput attempt: _single_http_speed_test of speedtester.py
    \* --- or _test_single_server of advanced_speedtester.py --------------
    streamTester,    \* "real" | "advanced": whose attempt runs
    streamPc,        \* "idle", "request", "streaming", "done"
    streamDownloaded, \* the local `downloaded`, in units of 10 MB
    streamElapsed,   \* the time since start_time, in ticks of 5 s
    streamEnd,       \* what ended the attempt ("none": not ended)
    streamResult,    \* what the attempt returned
    \* --- SubscriptionAnalyzer.analyze_subscription after a 200 response:
    \* --- the subscription-userinfo header and the body -------------------
    quotaHeader,     \* the header: its upload, download, total and expire
                     \* values, or NoHeader when the response has none
    quotaLines,      \* the lines of the body
    quotaPc,         \* "idle", "extract", "content", "done"
    quotaInfo,       \* the dict subscription_info
    quotaOutcome,    \* what analyze_subscription returned
    \* --- FullTclashIntegration.batch_test_nodes --------------------------
    clashNodes,      \* len(nodes); the nodes are 1..clashNodes in list order
    clashPc,         \* "idle", "config", "start", "testing", "stopping",
                     \* "closing", "returned"
    clash_process,   \* self.clash_process: "None", or the Popen object of
                     \* a core that is "running" or has "exited"
    session,         \* self.session: "None" or "open"
    coreStarted,     \* what start_clash_core returned
    clashTested,     \* how many nodes the loop has tested
    clashResults     \* the list batch_test_nodes returns

scoreVars  == <<scoreTester, scoreInput, scored, qualityScore, overallStatus>>
bucketVars == <<bucketScore, bucketStatus>>
batchVars  == <<numNodes, max_workers, pc, phase, probeResult, started,
                yielded,
                results, deadlineHit, unstartedAtDeadline, workerTask>>
advVars    == <<advPhase, advResult, advStarted>>
parseVars  == <<linkParts, inputLink, parseDone, parsed>>
subVars    == <<subResolver, subFetch, subLines, subEncoded, subPc,
                subContent, subPending, subNodes, subSkipLog, subOutcome>>
speedVars  == <<speedTester, urlOutcomes, speedDone, urlsAttempted,
                speedBest>>
libVars    == <<parseVars, subVars, speedVars>>
stabVars   == <<stabPc, stabSamples, stabReport>>
connVars   == <<connTester, connHost, connPc, connTrace, connEvent,
                connLatency, connResult>>
streamVars == <<streamTester, streamPc, streamDownloaded, streamElapsed, streamEnd, streamResult>>
quotaVars  == <<quotaHeader, quotaLines, quotaPc, quotaInfo, quotaOutcome>>
clashVars  == <<clashNodes, clashPc, clash_process, session, coreStarted,
                clashTested, clashResults>>
extVars    == <<stabVars, connVars, streamVars, quotaVars, clashVars>>
vars       == <<batchVars, advVars, scoreVars, bucketVars, libVars, extVars>>

Absent == 0 - 1

Get(value, default) == IF value = Absent THEN default ELSE value

Min(a, b) == IF a < b THEN a ELSE b

\* n milliseconds, n "mbps", n percent in the model's units
Ms(n)   == n * 100
Mbps(n) == n * 100
Pct(n)  == n * 10

(***************************************************************************)
(* RealSpeedTester._calculate_quality_score                                *)
(***************************************************************************)
RealLatencyPoints(result) ==
    IF result.status = "connected"
    THEN LET latency == Get(result.latency_ms, Ms(1000))
         IN  30 + (IF latency < Ms(50) THEN 10
                   ELSE IF latency < Ms(100) THEN 8
                   ELSE IF latency < Ms(200) THEN 5
                   ELSE IF latency < Ms(500) THEN 2
                   ELSE 0)
    ELSE 0

RealSpeedPointsSwapped(result) ==
    LET speed == Get(result.download_speed_mbps, 0)
    IN  IF speed > Mbps(50) THEN 50
        ELSE IF speed > Mbps(20) THEN 60
        ELSE IF speed > Mbps(10) THEN 40
        ELSE IF speed > Mbps(5) THEN 30
        ELSE IF speed > Mbps(1) THEN 20
        ELSE IF speed > 10 THEN 10
        ELSE 0

RealSpeedPoints(result) ==
    LET speed == Get(result.download_speed_mbps, 0)
    IN  IF speed > Mbps(50) THEN 60
        ELSE IF speed > Mbps(20) THEN 50
        ELSE IF speed > Mbps(10) THEN 40
        ELSE IF speed > Mbps(5) THEN 30
        ELSE IF speed > Mbps(1) THEN 20
        ELSE IF speed > 10 THEN 10      \* speed > 0.1
        ELSE 0

RealFirstBytePoints(result) ==
    LET first_byte == Get(result.first_byte_latency, Ms(1000))
    IN  IF first_byte < Ms(200) THEN 10
        ELSE IF first_byte < Ms(500) THEN 8
        ELSE IF first_byte < Ms(1000) THEN 5
        ELSE IF first_byte < Ms(2000) THEN 2
        ELSE 0

_calculate_quality_score_unclamped(result) ==
    RealLatencyPoints(result) + RealSpeedPoints(result)
        + RealFirstBytePoints(result)

_calculate_quality_score(result) ==
    Min(RealLatencyPoints(result) + RealSpeedPoints(result)
            + RealFirstBytePoints(result), 100)

(***************************************************************************)
(* AdvancedSpeedTester._calculate_advanced_score                           *)
(***************************************************************************)
AdvLatencyPoints(result) ==
    IF result.status = "connected"
    THEN LET latency == Get(result.latency_ms, Ms(1000))
         IN  25 + (IF latency < Ms(50) THEN 15
                   ELSE IF latency < Ms(100) THEN 12
                   ELSE IF latency < Ms(200) THEN 8
                   ELSE IF latency < Ms(500) THEN 4
                   ELSE 0)
    ELSE 0

AdvSpeedPointsTopBand(result) ==
    LET speed == Get(result.download_speed_mbps, 0)
    IN  IF speed > Mbps(50) THEN 40
        ELSE IF speed > Mbps(20) THEN 30
        ELSE IF speed > Mbps(10) THEN 25
        ELSE IF speed > Mbps(5) THEN 20
        ELSE IF speed > Mbps(1) THEN 15
        ELSE IF speed > 10 THEN 10
        ELSE 0

AdvSpeedPoints(result) ==
    LET speed == Get(result.download_speed_mbps, 0)
    IN  IF speed > Mbps(100) THEN 40
        ELSE IF speed > Mbps(50) THEN 35
        ELSE IF speed > Mbps(20) THEN 30
        ELSE IF speed > Mbps(10) THEN 25
        ELSE IF speed > Mbps(5) THEN 20
        ELSE IF speed > Mbps(1) THEN 15
        ELSE IF speed > 10 THEN 10      \* speed > 0.1
        ELSE 0

AdvStabilityPoints(result) ==
    LET jitter      == Get(result.jitter, Ms(1000))
        packet_loss == Get(result.packet_loss, Pct(100))
    IN  (IF packet_loss = 0 THEN 5
         ELSE IF packet_loss < Pct(5) THEN 3
         ELSE IF packet_loss < Pct(10) THEN 1
         ELSE 0)
      + (IF jitter < Ms(10) THEN 5
         ELSE IF jitter < Ms(50) THEN 3
         ELSE IF jitter < Ms(100) THEN 1
         ELSE 0)

\* unlock_rate is summary['unlock_rate'] of result['unlock_test']; Absent
\* stands for a result without unlock_test.  int(unlock_rate / 10) of a
\* non-negative rate is the floor of rate/10, rate in tenths: rate \div 100.
AdvUnlockPoints(result) ==
    IF result.unlock_rate = Absent THEN 0 ELSE result.unlock_rate \div 100

_calculate_advanced_score(result) ==
    Min(AdvLatencyPoints(result) + AdvSpeedPoints(result)
            + AdvStabilityPoints(result) + AdvUnlockPoints(result), 100)

(***************************************************************************)
(* AdvancedSpeedTester._get_status_by_score.  The status strings of the    *)
(* source, best first: excellent, blazing, fast, good, average, poor,      *)
(* terrible.                                                               *)
(***************************************************************************)
StatusBuckets ==
    <<"terrible", "poor", "average", "good", "fast", "blazing", "excellent">>

_get_status_by_score_misordered(score) ==
    IF score >= 90 THEN "excellent"
    ELSE IF score >= 80 THEN "blazing"
    ELSE IF score >= 70 THEN "fast"
    ELSE IF score >= 60 THEN "average"
    ELSE IF score >= 40 THEN "good"
    ELSE IF score >= 20 THEN "poor"
    ELSE "terrible"

_get_status_by_score(score) ==
    IF score >= 90 THEN "excellent"
    ELSE IF score >= 80 THEN "blazing"
    ELSE IF score >= 70 THEN "fast"
    ELSE IF score >= 60 THEN "good"
    ELSE IF score >= 40 THEN "average"
    ELSE IF score >= 20 THEN "poor"
    ELSE "terrible"

\* the place of a status in the ordered list, worst = 1
BucketRank(status) ==
    CHOOSE i \in 1..Len(StatusBuckets) : StatusBuckets[i] = status

\* the values of the parts of the state a specification does not use
EmptyResult ==
    [status |-> "absent", latency_ms |-> Absent,
     download_speed_mbps |-> Absent, first_byte_latency |-> Absent,
     jitter |-> Absent, packet_loss |-> Absent, unlock_rate |-> Absent]

ScoreIdle ==
    /\ scoreTester = "none"
    /\ scoreInput = EmptyResult
    /\ scored = FALSE
    /\ qualityScore = Absent
    /\ overallStatus = "none"

\* the dict comprehensive_test starts with
NewAdvResult ==
    [status |-> "absent", error |-> "none", latency_ms |-> Absent,
     geo |-> "none", download_speed_mbps |-> Absent,
     speed_test_error |-> "none", avg_latency |-> Absent,
     min_latency |-> Absent, max_latency |-> Absent, jitter |-> Absent,
     packet_loss |-> Absent, unlock_rate |-> Absent,
     quality_score |-> Absent, overall_status |-> "none"]

AdvIdle ==
    /\ advPhase = "idle"
    /\ advResult = NewAdvResult
    /\ advStarted = <<>>

\* a str is the sequence of its UTF-8 bytes; None is the one-element
\* sequence <<Absent>>, which is no str
None == <<Absent>>

\* the return value None of a parser, in the shape of a node dict
NoNode ==
    [protocol |-> "none", server |-> None, port |-> Absent, uuid |-> None,
     method |-> None, password |-> None]

\* no link
NoParts ==
    [scheme |-> "none", form |-> "none", method |-> <<>>, password |-> <<>>,
     host |-> <<>>, port |-> None, query |-> None, fragment |-> None,
     spaces |-> FALSE, payload |-> 0]

ParseIdle ==
    /\ linkParts = NoParts
    /\ inputLink = <<>>
    /\ parseDone = FALSE
    /\ parsed = NoNode

\* what a resolver returns, by the keys that tell outcomes apart; a bare
\* list (parse_subscription_link) has status "list"
NoOutcome ==
    [status |-> "none", error |-> "none", error_code |-> Absent,
     nodes |-> <<>>]

SubIdle ==
    /\ subResolver = "none"
    /\ subFetch = "none"
    /\ subLines = <<>>
    /\ subEncoded = FALSE
    /\ subPc = "idle"
    /\ subContent = <<>>
    /\ subPending = <<>>
    /\ subNodes = <<>>
    /\ subSkipLog = 0
    /\ subOutcome = NoOutcome

SpeedIdle ==
    /\ speedTester = "none"
    /\ urlOutcomes = <<>>
    /\ speedDone = FALSE
    /\ urlsAttempted = 0
    /\ speedBest = Absent

LibIdle == ParseIdle /\ SubIdle /\ SpeedIdle

NoReport ==
    [avg_latency |-> Absent, min_latency |-> Absent, max_latency |-> Absent,
     jitter |-> Absent, packet_loss |-> Absent]

StabIdle ==
    /\ stabPc = "idle"
    /\ stabSamples = <<>>
    /\ stabReport = NoReport

NoConnResult ==
    [status |-> "none", error |-> "none", latency_ms |-> Absent,
     geo |-> "none"]

ConnIdle ==
    /\ connTester = "none"
    /\ connHost = "none"
    /\ connPc = "idle"
    /\ connTrace = <<>>
    /\ connEvent = "none"
    /\ connLatency = Absent
    /\ connResult = NoConnResult

NoStreamResult == [status |-> "none", download_speed_mbps |-> Absent]

StreamIdle ==
    /\ streamTester = "none"
    /\ streamPc = "idle"
    /\ streamDownloaded = 0
    /\ streamElapsed = 0
    /\ streamEnd = "none"
    /\ streamResult = NoStreamResult

NoHeader ==
    [upload |-> Absent, download |-> Absent, total |-> Absent,
     expire |-> Absent, present |-> FALSE]

\* the dict `info`: a key that is not set is <<>>, a key set to v is <<v>>
NoInfo ==
    [used_traffic |-> <<>>, total |-> <<>>, remaining_traffic |-> <<>>,
     usage_percentage |-> <<>>, expire_date |-> <<>>, raised |-> FALSE]

QuotaIdle ==
    /\ quotaHeader = NoHeader
    /\ quotaLines = <<>>
    /\ quotaPc = "idle"
    /\ quotaInfo = NoInfo
    /\ quotaOutcome = NoOutcome

ClashIdle ==
    /\ clashNodes = 0
    /\ clashPc = "idle"
    /\ clash_process = "None"
    /\ session = "None"
    /\ coreStarted = FALSE
    /\ clashTested = 0
    /\ clashResults = <<>>

ExtIdle == StabIdle /\ ConnIdle /\ StreamIdle /\ QuotaIdle /\ ClashIdle

BucketIdle ==
    /\ bucketScore = Absent
    /\ bucketStatus = "none"

(***************************************************************************)
(* RealSpeedTester: one node's probe, test_node_comprehensive              *)
(***************************************************************************)
MaxNodes   == 3
MaxWorkers == 2
Nodes      == 1..MaxNodes
Workers    == 1..MaxWorkers

\* connect latencies the environment may produce
ConnectLatencies == {Ms(30)}
\* what the geolocation lookup returned: a dict of strings (an API's answer
\* or the default dict); a dict whose country code is a JSON null
GeoReplies == {"ok", "null_code"}
\* one _single_http_speed_test: Absent is any status but "success", a
\* number is the download_speed_mbps of a "success"
SingleSpeedResults == {Absent, 0, Mbps(5), Mbps(80)}
FirstByteSamples   == {Ms(150)}
\* test_urls[:3]
SpeedUrls == 3

\* the dict test_node_comprehensive starts with
NewResult(n) ==
    [node |-> n, status |-> "absent", error |-> "none",
     latency_ms |-> Absent, geo |-> "none",
     download_speed_mbps |-> Absent, first_byte_latency |-> Absent,
     speed_error |-> "none", overall_status |-> "none",
     quality_score |-> Absent]

\* how the resolve-and-connect of a connectivity test can end
ConnectEvents == {"dns_failed", "connected", "refused", "timeout", "error"}

\* test_tcp_connectivity: the dict returned when the attempt ends as ev,
\* after l of connect time, the geolocation lookup returning g
test_tcp_connectivity(ev, l, g) ==
    CASE ev = "dns_failed" ->
             [status |-> "failed", error |-> "dns", latency_ms |-> Absent,
              geo |-> "none"]
      [] ev = "connected" ->
             [status |-> "connected", error |-> "none", latency_ms |-> l,
              geo |-> g]
      [] ev = "refused" ->
             [status |-> "failed", error |-> "connect_failed",
              latency_ms |-> (IF l < Ms(10000) THEN l ELSE 0),
              geo |-> "none"]
      [] ev = "timeout" ->
             \* lines 128-130: connect_ex on a socket with a timeout
             \* returns EAGAIN when the timeout expires, it does not raise
             \* socket.timeout; the connect_timeout of 10 s has passed, so
             \* the latency is not below 10000 (line 150)
             [status |-> "failed", error |-> "connect_failed",
              latency_ms |-> 0, geo |-> "none"]
      [] OTHER ->
             [status |-> "error", error |-> "exception",
              latency_ms |-> Absent, geo |-> "none"]

TcpConnectivityResults ==
    {test_tcp_connectivity(ev, l, g) :
        ev \in ConnectEvents, l \in ConnectLatencies, g \in GeoReplies}

\* what the probes run by the pool are given: one dict per way
\* test_node_comprehensive can end (a failure before the connect, the
\* connect timing out, connected, connected with a null country code), and
\* URLs that fail or measure 80
PoolConnectivityResults ==
    {test_tcp_connectivity(ev, l, g) :
        ev \in {"dns_failed", "connected", "timeout"},
        l \in ConnectLatencies, g \in GeoReplies}
PoolSpeedResults == {Absent, Mbps(80)}

\* lines 321-325: any status but "connected" ends the probe
RealAfterConnectivity(status) ==
    IF status # "connected" THEN "done" ELSE "measure"

\* test_http_speed_direct: the loop over test_urls[:3].  outcomes[i] is what
\* _single_http_speed_test returns for URL i; the value is
\* <<best_speed, attempted>>, best_speed = Absent when best_result is None.
RECURSIVE SpeedLoop(_, _, _)
SpeedLoop(outcomes, i, best) ==
    IF i > Len(outcomes) THEN <<best, i - 1>>
    ELSE IF outcomes[i] = Absent THEN SpeedLoop(outcomes, i + 1, best)
    ELSE LET speed == outcomes[i]
             nbest == IF speed > Get(best, 0) THEN speed ELSE best
         IN  IF speed > Mbps(10) THEN <<nbest, i>>
             ELSE SpeedLoop(outcomes, i + 1, nbest)

\* a loop that stops at the first attempt that succeeds
test_http_speed_first_success(outcomes) ==
    LET hits == {i \in 1..Len(outcomes) : outcomes[i] # Absent}
        i    == CHOOSE h \in hits : \A j \in hits : h <= j
    IN  IF hits = {} THEN <<Absent, Len(outcomes)>> ELSE <<outcomes[i], i>>

test_http_speed_direct(outcomes) == SpeedLoop(outcomes, 1, Absent)

\* lines 349-370: the status text chosen by the speed
RealSpeedStatus(speed) ==
    IF speed > Mbps(50) THEN "blazing"
    ELSE IF speed > Mbps(20) THEN "fast"
    ELSE IF speed > Mbps(5) THEN "normal"
    ELSE IF speed > Mbps(1) THEN "slow"
    ELSE "very_slow"

\* lines 338-382: the speed result merged into the dict, then the score
RealWithSpeed(res, best, fb) ==
    LET r == IF best # Absent
             THEN [res EXCEPT !.download_speed_mbps = best,
                              !.first_byte_latency = fb,
                              !.overall_status = RealSpeedStatus(best)]
             ELSE [res EXCEPT !.download_speed_mbps = 0,
                              !.overall_status = "speed_test_failed",
                              !.speed_error = "all_urls_failed"]
    IN  [r EXCEPT !.quality_score = _calculate_quality_score(r)]

\* lines 316-325: the connectivity dict merged into the result
RealWithConnectivity(res, c) ==
    [res EXCEPT !.status = c.status, !.error = c.error,
                !.latency_ms = c.latency_ms, !.geo = c.geo,
                !.overall_status =
                    IF c.status # "connected" THEN "connect_failed" ELSE @]

\* lines 327-332.  _format_region calls .upper() on the country code: a null
\* one raises AttributeError out of test_node_comprehensive.
FormatRegionRaises(res) == res.geo = "null_code"

\* test_node_comprehensive called directly (test_node_speed): lines 316-325
RealConnectivity(n) ==
    /\ pc = "direct"
    /\ phase[n] = "connectivity"
    /\ \E c \in TcpConnectivityResults :
          /\ probeResult' = [probeResult EXCEPT ![n] =
                                 RealWithConnectivity(@, c)]
          /\ phase' = [phase EXCEPT ![n] = RealAfterConnectivity(c.status)]
    /\ started' = [started EXCEPT ![n] = Append(@, "connectivity")]
    /\ UNCHANGED <<numNodes, max_workers, workerTask, pc, yielded, results,
                   deadlineHit,
                   unstartedAtDeadline, scoreVars, bucketVars, advVars, libVars,
                   extVars>>

\* test_node_comprehensive called directly: lines 327-385
RealMeasure(n) ==
    /\ pc = "direct"
    /\ phase[n] = "measure"
    /\ \/ /\ FormatRegionRaises(probeResult[n])
          /\ phase' = [phase EXCEPT ![n] = "raised"]
          /\ UNCHANGED <<probeResult, started>>
       \/ /\ ~FormatRegionRaises(probeResult[n])
          /\ \E outcomes \in [1..SpeedUrls -> SingleSpeedResults],
                fb \in FirstByteSamples :
                probeResult' = [probeResult EXCEPT ![n] =
                    RealWithSpeed(@, test_http_speed_direct(outcomes)[1], fb)]
          /\ started' = [started EXCEPT ![n] = Append(@, "throughput")]
          /\ phase' = [phase EXCEPT ![n] = "done"]
    /\ UNCHANGED <<numNodes, max_workers, workerTask, pc, yielded, results,
                   deadlineHit,
                   unstartedAtDeadline, scoreVars, bucketVars, advVars, libVars,
                   extVars>>

\* test_node_comprehensive run by a worker thread of the pool, from its
\* first line to its return or raise: the probes of different nodes share no
\* state, so the pool sees only when each one starts and ends
FinishProbe(n) ==
    /\ pc \in {"collecting", "unwinding"}
    /\ phase[n] = "running"
    /\ \E c \in PoolConnectivityResults :
          LET r == RealWithConnectivity(probeResult[n], c)
          IN  \/ /\ RealAfterConnectivity(c.status) = "done"
                 /\ probeResult' = [probeResult EXCEPT ![n] = r]
                 /\ started' = [started EXCEPT ![n] = <<"connectivity">>]
                 /\ phase' = [phase EXCEPT ![n] = "done"]
              \/ /\ RealAfterConnectivity(c.status) # "done"
                 /\ FormatRegionRaises(r)
                 /\ probeResult' = [probeResult EXCEPT ![n] = r]
                 /\ started' = [started EXCEPT ![n] = <<"connectivity">>]
                 /\ phase' = [phase EXCEPT ![n] = "raised"]
              \/ /\ RealAfterConnectivity(c.status) # "done"
                 /\ ~FormatRegionRaises(r)
                 /\ \E outcomes \in [1..SpeedUrls -> PoolSpeedResults],
                       fb \in FirstByteSamples :
                       probeResult' = [probeResult EXCEPT ![n] =
                           RealWithSpeed(r,
                               test_http_speed_direct(outcomes)[1], fb)]
                 /\ started' = [started EXCEPT ![n] =
                                    <<"connectivity", "throughput">>]
                 /\ phase' = [phase EXCEPT ![n] = "done"]
    /\ workerTask' = [w \in Workers |->
                          IF workerTask[w] = n THEN 0 ELSE workerTask[w]]
    /\ UNCHANGED <<numNodes, max_workers, pc, yielded, results, deadlineHit,
                   unstartedAtDeadline, scoreVars, bucketVars, advVars, libVars,
                   extVars>>

(***************************************************************************)
(* RealSpeedTester.test_multiple_nodes                                     *)
(***************************************************************************)
InputNodes == 1..numNodes

Finished(n) == phase[n] \in {"done", "raised"}

Running == {n \in InputNodes : phase[n] = "running"}

\* lines 484-494: the dict appended for a future whose result() raised
SyntheticResult(n) ==
    [NewResult(n) EXCEPT !.overall_status = "test_exception",
                         !.error = "exception", !.quality_score = 0]

\* results.sort(key=lambda x: x.get('quality_score', 0), reverse=True):
\* a stable sort, highest score first
SortKey(r) == Get(r.quality_score, 0)

RECURSIVE InsertByScore(_, _)
InsertByScore(sorted, r) ==
    IF sorted = <<>> THEN <<r>>
    ELSE IF SortKey(Head(sorted)) >= SortKey(r)
         THEN <<Head(sorted)>> \o InsertByScore(Tail(sorted), r)
         ELSE <<r>> \o sorted

\* the list left in the order the probes completed
SortByCompletion(list) == list

RECURSIVE SortByScore(_)
SortByScore(list) ==
    IF list = <<>> THEN <<>>
    ELSE InsertByScore(SortByScore(SubSeq(list, 1, Len(list) - 1)),
                       list[Len(list)])

BatchIdle ==
    /\ numNodes = 0
    /\ max_workers = 1
    /\ pc = "idle"
    /\ phase = [n \in Nodes |-> "none"]
    /\ probeResult = [n \in Nodes |-> NewResult(n)]
    /\ started = [n \in Nodes |-> <<>>]
    /\ yielded = {}
    /\ results = <<>>
    /\ deadlineHit = FALSE
    /\ unstartedAtDeadline = {}
    /\ workerTask = [w \in Workers |-> 0]

\* test_multiple_nodes(nodes, max_workers) has been called
Init ==
    /\ numNodes \in 0..MaxNodes
    /\ max_workers \in 1..MaxWorkers
    /\ pc = "submit"
    /\ phase = [n \in Nodes |-> "none"]
    /\ probeResult = [n \in Nodes |-> NewResult(n)]
    /\ started = [n \in Nodes |-> <<>>]
    /\ yielded = {}
    /\ results = <<>>
    /\ deadlineHit = FALSE
    /\ unstartedAtDeadline = {}
    /\ workerTask = [w \in Workers |-> 0]
    /\ ScoreIdle
    /\ BucketIdle
    /\ AdvIdle
    /\ LibIdle
    /\ ExtIdle

\* lines 466-471: every node is submitted to the executor
SubmitAll ==
    /\ pc = "submit"
    /\ phase' = [n \in Nodes |-> IF n \in InputNodes THEN "queued" ELSE "none"]
    /\ pc' = "collecting"
    /\ UNCHANGED <<numNodes, max_workers, workerTask, probeResult, started,
                   yielded, results,
                   deadlineHit, unstartedAtDeadline, scoreVars, bucketVars, advVars, libVars,
                   extVars>>

\* the threads the executor has: at most max_workers, each running one work
\* item at a time
PoolWorkers == 1..max_workers

IdleWorkersAny == PoolWorkers

IdleWorkers == {w \in PoolWorkers : workerTask[w] = 0}

\* a worker thread of the pool takes the next work item off the queue; the
\* pool never has more than max_workers threads, and shutdown(wait=True)
\* lets them drain the queue
StartProbe(n) ==
    /\ pc \in {"collecting", "unwinding"}
    /\ phase[n] = "queued"
    /\ \A m \in InputNodes : m < n => phase[m] # "queued"
    /\ \E w \in IdleWorkers : workerTask' = [workerTask EXCEPT ![w] = n]
    /\ phase' = [phase EXCEPT ![n] = "running"]
    /\ UNCHANGED <<numNodes, max_workers, pc, probeResult, started, yielded,
                   results, deadlineHit, unstartedAtDeadline, scoreVars,
                   bucketVars, advVars, libVars, extVars>>

\* lines 475-494: as_completed yields a finished future; its result, or the
\* synthetic dict if result() raises, is appended
Collect(n) ==
    /\ pc = "collecting"
    /\ n \in InputNodes
    /\ Finished(n)
    /\ n \notin yielded
    /\ yielded' = yielded \cup {n}
    /\ results' = Append(results, IF phase[n] = "done" THEN probeResult[n]
                                  ELSE SyntheticResult(n))
    /\ UNCHANGED <<numNodes, max_workers, workerTask, pc, phase, probeResult,
                   started,
                   deadlineHit, unstartedAtDeadline, scoreVars, bucketVars, advVars, libVars,
                   extVars>>

\* line 475: 120 s have passed and a future has not been yielded yet:
\* as_completed raises TimeoutError, which nothing in the function catches;
\* leaving the with block calls executor.shutdown(wait=True)
AsCompletedTimeout ==
    /\ pc = "collecting"
    /\ \E n \in InputNodes : n \notin yielded
    /\ pc' = "unwinding"
    /\ deadlineHit' = TRUE
    /\ unstartedAtDeadline' = {n \in InputNodes : phase[n] = "queued"}
    /\ UNCHANGED <<numNodes, max_workers, workerTask, phase, probeResult,
                   started, yielded,
                   results, scoreVars, bucketVars, advVars, libVars,
                   extVars>>

\* shutdown(wait=True) has joined the workers: the TimeoutError leaves
\* test_multiple_nodes
RaiseTimeout ==
    /\ pc = "unwinding"
    /\ \A n \in InputNodes : Finished(n)
    /\ pc' = "raised"
    /\ UNCHANGED <<numNodes, max_workers, workerTask, phase, probeResult,
                   started, yielded,
                   results, deadlineHit, unstartedAtDeadline, scoreVars,
                   bucketVars, advVars, libVars, extVars>>

\* lines 496-500: every future was yielded; sort and return
Return ==
    /\ pc = "collecting"
    /\ \A n \in InputNodes : n \in yielded
    /\ results' = SortByScore(results)
    /\ pc' = "returned"
    /\ UNCHANGED <<numNodes, max_workers, workerTask, phase, probeResult,
                   started, yielded,
                   deadlineHit, unstartedAtDeadline, scoreVars, bucketVars, advVars, libVars,
                   extVars>>

Next ==
    \/ SubmitAll
    \/ \E n \in Nodes : StartProbe(n)
    \/ \E n \in Nodes : FinishProbe(n)
    \/ \E n \in Nodes : Collect(n)
    \/ AsCompletedTimeout
    \/ RaiseTimeout
    \/ Return

Spec == Init /\ [][Next]_vars

(***************************************************************************)
(* AdvancedSpeedTester.comprehensive_test                                  *)
(***************************************************************************)
\* _test_connectivity: the dict returned.  The geolocation lookup and
\* _format_region run inside the inner try: a null country code makes
\* _format_region raise, and the inner "except Exception" answers "failed".
_test_connectivity(ev, l, g) ==
    CASE ev = "dns_failed" ->
             [status |-> "failed", error |-> "dns", latency_ms |-> Absent,
              geo |-> "none"]
      [] ev = "connected" /\ g # "null_code" ->
             [status |-> "connected", error |-> "none", latency_ms |-> l,
              geo |-> g]
      [] ev = "connected" /\ g = "null_code" ->
             [status |-> "failed", error |-> "connect_failed",
              latency_ms |-> Absent, geo |-> "none"]
      [] ev = "refused" ->
             [status |-> "failed", error |-> "connect_failed",
              latency_ms |-> Absent, geo |-> "none"]
      [] ev = "timeout" ->
             [status |-> "timeout", error |-> "timeout",
              latency_ms |-> Absent, geo |-> "none"]
      [] OTHER ->
             [status |-> "error", error |-> "exception",
              latency_ms |-> Absent, geo |-> "none"]

\* lines 76-82: any status but "connected" returns at once
AdvAfterConnectivityNoReturn(status) == "speed"

AdvAfterConnectivityLatencyFirst(status) ==
    IF status # "connected" THEN "done" ELSE "latency"

AdvAfterConnectivity(status) ==
    IF status # "connected" THEN "done" ELSE "speed"

\* lines 82-86, 86-91: the statements that follow each sub-probe
AdvAfterSpeed   == "latency"
AdvAfterLatency == "unlock"

\* _multi_thread_speed_test: the loop over speed_test_urls[:3].
\* outcomes[i] is what _test_single_server returns for server i (Absent:
\* None); the value is <<best_speed, attempted>>, best_speed = Absent when
\* best_result is None.
RECURSIVE AdvSpeedLoop(_, _, _)
AdvSpeedLoop(outcomes, i, best) ==
    IF i > Len(outcomes) THEN <<best, i - 1>>
    ELSE IF outcomes[i] # Absent /\ outcomes[i] > Get(best, 0)
         THEN IF outcomes[i] > Mbps(20) THEN <<outcomes[i], i>>
              ELSE AdvSpeedLoop(outcomes, i + 1, outcomes[i])
         ELSE AdvSpeedLoop(outcomes, i + 1, best)

_multi_thread_speed_test(outcomes) == AdvSpeedLoop(outcomes, 1, Absent)

\* lines 177-193: the dict it returns, merged into the result
AdvWithSpeed(res, best) ==
    IF best # Absent
    THEN [res EXCEPT !.download_speed_mbps = best]
    ELSE [res EXCEPT !.download_speed_mbps = 0,
                     !.speed_test_error = "all_servers_failed"]

\* round(a / b, digits) on the model's integers: the nearest integer to
\* a / b, a tie going to the even one
RoundDiv(a, b) ==
    LET q == a \div b
        r == a % b
    IN  IF 2 * r < b THEN q
        ELSE IF 2 * r > b THEN q + 1
        ELSE IF q % 2 = 0 THEN q ELSE q + 1

RECURSIVE SeqSum(_)
SeqSum(seq) == IF seq = <<>> THEN 0 ELSE Head(seq) + SeqSum(Tail(seq))

SeqMin(seq) == CHOOSE x \in {seq[i] : i \in 1..Len(seq)} :
                   \A i \in 1..Len(seq) : x <= seq[i]
SeqMax(seq) == CHOOSE x \in {seq[i] : i \in 1..Len(seq)} :
                   \A i \in 1..Len(seq) : x >= seq[i]

\* the count parameter of _latency_stability_test
StabilityCount == 5
\* one connect of the stability test: Absent is a failed or timed-out one
StabilitySamples == {Absent, Ms(20), Ms(90)}

\* a report whose jitter is measured from the mean instead of the minimum
_latency_stability_test_jitter_from_mean(res, samples) ==
    LET latencies == SelectSeq(samples, LAMBDA x : x # Absent)
        count     == Len(samples)
        avg       == RoundDiv(SeqSum(latencies), Len(latencies))
    IN  IF latencies # <<>>
        THEN [res EXCEPT
                 !.avg_latency = avg,
                 !.min_latency = SeqMin(latencies),
                 !.max_latency = SeqMax(latencies),
                 !.jitter = SeqMax(latencies) - avg,
                 !.packet_loss =
                     RoundDiv((count - Len(latencies)) * Pct(100), count)]
        ELSE [res EXCEPT !.avg_latency = 0, !.packet_loss = Pct(100)]

\* _latency_stability_test: samples[i] is the latency of connect i
_latency_stability_test(res, samples) ==
    LET latencies == SelectSeq(samples, LAMBDA x : x # Absent)
        count     == Len(samples)
    IN  IF latencies # <<>>
        THEN [res EXCEPT
                 !.avg_latency = RoundDiv(SeqSum(latencies), Len(latencies)),
                 !.min_latency = SeqMin(latencies),
                 !.max_latency = SeqMax(latencies),
                 !.jitter = SeqMax(latencies) - SeqMin(latencies),
                 !.packet_loss =
                     RoundDiv((count - Len(latencies)) * Pct(100), count)]
        ELSE [res EXCEPT !.avg_latency = 0, !.packet_loss = Pct(100)]

\* len(self.platforms) of PlatformUnlockTester
TotalPlatforms == 8

\* test_platform_unlock: summary['unlock_rate'] when `unlocked` platforms
\* answered unlocked
UnlockRate(unlocked, total) ==
    IF total > 0 THEN RoundDiv(unlocked * Pct(100), total) ELSE 0

\* lines 94-96
AdvWithScore(res) ==
    LET score == _calculate_advanced_score(res)
    IN  [res EXCEPT !.quality_score = score,
                    !.overall_status = _get_status_by_score(score)]

\* lines 101-108: the except branch of comprehensive_test
AdvWithException(res) ==
    [res EXCEPT !.overall_status = "test_exception", !.quality_score = 0,
                !.error = "exception"]

\* lines 72-79
AdvConnectivity ==
    /\ advPhase = "connectivity"
    /\ \E ev \in ConnectEvents, l \in ConnectLatencies, g \in GeoReplies :
          LET c == _test_connectivity(ev, l, g)
              r == [advResult EXCEPT !.status = c.status, !.error = c.error,
                                     !.latency_ms = c.latency_ms,
                                     !.geo = c.geo]
          IN  /\ advPhase' = AdvAfterConnectivity(c.status)
              /\ advResult' =
                     IF c.status # "connected"
                     THEN [r EXCEPT !.overall_status = "connect_failed",
                                    !.quality_score = 0]
                     ELSE r
    /\ advStarted' = Append(advStarted, "connectivity")
    /\ UNCHANGED <<batchVars, scoreVars, bucketVars, libVars, extVars>>

\* lines 81-83
AdvSpeed ==
    /\ advPhase = "speed"
    /\ \E outcomes \in [1..SpeedUrls -> SingleSpeedResults] :
          advResult' =
              AdvWithSpeed(advResult, _multi_thread_speed_test(outcomes)[1])
    /\ advStarted' = Append(advStarted, "throughput")
    /\ advPhase' = AdvAfterSpeed
    /\ UNCHANGED <<batchVars, scoreVars, bucketVars, libVars, extVars>>

\* lines 85-87
AdvLatency ==
    /\ advPhase = "latency"
    /\ \E samples \in [1..StabilityCount -> StabilitySamples] :
          advResult' = _latency_stability_test(advResult, samples)
    /\ advStarted' = Append(advStarted, "latency")
    /\ advPhase' = AdvAfterLatency
    /\ UNCHANGED <<batchVars, scoreVars, bucketVars, libVars, extVars>>

\* lines 89-108: the unlock test, then the score; an exception raised by the
\* unlock test is caught by the except branch
AdvUnlockAndScore ==
    /\ advPhase = "unlock"
    /\ \/ \E unlocked \in 0..TotalPlatforms :
             advResult' =
                 AdvWithScore([advResult EXCEPT !.unlock_rate =
                                   UnlockRate(unlocked, TotalPlatforms)])
       \/ advResult' = AdvWithException(advResult)
    /\ advStarted' = Append(advStarted, "unlock")
    /\ advPhase' = "done"
    /\ UNCHANGED <<batchVars, scoreVars, bucketVars, libVars, extVars>>

(***************************************************************************)
(* One node probed on its own: test_node_speed(node) of speedtester.py, or *)
(* advanced_speed_tester.comprehensive_test(node)                          *)
(***************************************************************************)
InitNode ==
    /\ \/ /\ numNodes = 1
          /\ max_workers = 1
          /\ pc = "direct"
          /\ phase = [n \in Nodes |-> IF n = 1 THEN "connectivity" ELSE "none"]
          /\ probeResult = [n \in Nodes |-> NewResult(n)]
          /\ started = [n \in Nodes |-> <<>>]
          /\ yielded = {}
          /\ results = <<>>
          /\ deadlineHit = FALSE
          /\ unstartedAtDeadline = {}
          /\ workerTask = [w \in Workers |-> 0]
          /\ AdvIdle
       \/ /\ BatchIdle
          /\ advPhase = "connectivity"
          /\ advResult = NewAdvResult
          /\ advStarted = <<>>
    /\ ScoreIdle
    /\ BucketIdle
    /\ LibIdle
    /\ ExtIdle

NextNode ==
    \/ \E n \in Nodes : RealConnectivity(n)
    \/ \E n \in Nodes : RealMeasure(n)
    \/ AdvConnectivity
    \/ AdvSpeed
    \/ AdvLatency
    \/ AdvUnlockAndScore

SpecNode == InitNode /\ [][NextNode]_vars

(***************************************************************************)
(* The scoring functions as pure functions of a result dict.  The dicts    *)
(* are drawn from the values around every band edge of the two functions;  *)
(* a key the applied function never reads is left out of the dict.         *)
(***************************************************************************)
StatusValues  == {"connected", "failed", "timeout", "error", "absent"}
LatencyValues == {Absent, Ms(30), Ms(50), Ms(150), Ms(499), Ms(500)}
SpeedValues   == {Absent, 0, 10, 11, Mbps(1), Mbps(3), Mbps(5), Mbps(8),
                  Mbps(10), Mbps(15), Mbps(20), Mbps(30), Mbps(50),
                  Mbps(80), Mbps(100), Mbps(200)}
FirstByteValues == {Absent, 0, Ms(199), Ms(200), Ms(700), Ms(1000),
                    Ms(1999), Ms(2000)}
JitterValues  == {Absent, 0, Ms(5), Ms(10), Ms(70), Ms(100)}
LossValues    == {Absent, 0, Pct(3), Pct(5), Pct(20), Pct(100)}
UnlockValues  == {Absent, 0, 95, Pct(50), Pct(100), Pct(250)}

RealInputs ==
    [status : StatusValues, latency_ms : LatencyValues,
     download_speed_mbps : SpeedValues, first_byte_latency : FirstByteValues,
     jitter : {Absent}, packet_loss : {Absent}, unlock_rate : {Absent}]

AdvancedInputs ==
    [status : StatusValues, latency_ms : LatencyValues,
     download_speed_mbps : SpeedValues, first_byte_latency : {Absent},
     jitter : JitterValues, packet_loss : LossValues,
     unlock_rate : UnlockValues]

InitScore ==
    /\ \/ scoreTester = "real" /\ scoreInput \in RealInputs
       \/ scoreTester = "advanced" /\ scoreInput \in AdvancedInputs
    /\ scored = FALSE
    /\ qualityScore = Absent
    /\ overallStatus = "none"
    /\ BucketIdle
    /\ BatchIdle
    /\ AdvIdle
    /\ LibIdle
    /\ ExtIdle

\* result["quality_score"] = self._calculate_quality_score(result)
ScoreReal ==
    /\ scoreTester = "real"
    /\ ~scored
    /\ scored' = TRUE
    /\ qualityScore' = _calculate_quality_score(scoreInput)
    /\ UNCHANGED <<scoreTester, scoreInput, overallStatus, bucketVars, batchVars,
                   advVars, libVars, extVars>>

\* result['quality_score'] = self._calculate_advanced_score(result)
\* result['overall_status'] = self._get_status_by_score(result['quality_score'])
ScoreAdvanced ==
    /\ scoreTester = "advanced"
    /\ ~scored
    /\ scored' = TRUE
    /\ qualityScore' = _calculate_advanced_score(scoreInput)
    /\ overallStatus' = _get_status_by_score(qualityScore')
    /\ UNCHANGED <<scoreTester, scoreInput, bucketVars, batchVars, advVars, libVars,
                   extVars>>

NextScore == ScoreReal \/ ScoreAdvanced

SpecScore == InitScore /\ [][NextScore]_vars

(***************************************************************************)
(* _get_status_by_score applied to every score min(score, 100) can be,     *)
(* in increasing order.                                                    *)
(***************************************************************************)
MaxScore == 100

InitBucket ==
    /\ bucketScore = 0
    /\ bucketStatus = _get_status_by_score(0)
    /\ ScoreIdle
    /\ BatchIdle
    /\ AdvIdle
    /\ LibIdle
    /\ ExtIdle

NextBucket ==
    /\ bucketScore < MaxScore
    /\ bucketScore' = bucketScore + 1
    /\ bucketStatus' = _get_status_by_score(bucketScore')
    /\ UNCHANGED <<scoreVars, batchVars, advVars, libVars, extVars>>

SpecBucket == InitBucket /\ [][NextBucket]_vars

(***************************************************************************)
(* src/parser.py                                                           *)
(***************************************************************************)
\* the characters the parser looks for
Chr == [space |-> 32, hash |-> 35, amp |-> 38, plus |-> 43, minus |-> 45,
        slash |-> 47, zero |-> 48, nine |-> 57, colon |-> 58, equals |-> 61,
        question |-> 63, at |-> 64, upperA |-> 65, upperZ |-> 90,
        lowerA |-> 97, lowerZ |-> 122, newline |-> 10]

\* "vmess://", "vless://", "ss://", "hy2://", "hysteria2://", "trojan://"
VmessPrefix     == <<118, 109, 101, 115, 115, 58, 47, 47>>
VlessPrefix     == <<118, 108, 101, 115, 115, 58, 47, 47>>
SsPrefix        == <<115, 115, 58, 47, 47>>
Hy2Prefix       == <<104, 121, 50, 58, 47, 47>>
Hysteria2Prefix == <<104, 121, 115, 116, 101, 114, 105, 97, 50, 58, 47, 47>>
TrojanPrefix    == <<116, 114, 111, 106, 97, 110, 58, 47, 47>>
\* "aes-256-gcm", the method of a legacy ss payload without a colon
DefaultSsMethod == <<97, 101, 115, 45, 50, 53, 54, 45, 103, 99, 109>>
\* "auth", the query parameter of a hysteria2 link
AuthKey         == <<97, 117, 116, 104>>

\* s.startswith(p)
StartsWith(s, p) == Len(p) <= Len(s) /\ SubSeq(s, 1, Len(p)) = p

\* s[i:] with i counted from 1
From(s, i) == SubSeq(s, i, Len(s))

\* the least index >= from of a character of s that is in cs; 0 if none
FindAny(s, cs, from) ==
    LET hits == {i \in from..Len(s) : s[i] \in cs}
    IN  IF hits = {} THEN 0 ELSE CHOOSE i \in hits : \A j \in hits : i <= j

Find(s, c) == FindAny(s, {c}, 1)

\* the greatest index of c in s; 0 if none
RFind(s, c) ==
    LET hits == {i \in 1..Len(s) : s[i] = c}
    IN  IF hits = {} THEN 0 ELSE CHOOSE i \in hits : \A j \in hits : i >= j

\* s.partition(c): <<before, found, after>>
Partition(s, c) ==
    LET i == Find(s, c)
    IN  IF i = 0 THEN <<s, FALSE, <<>>>>
        ELSE <<SubSeq(s, 1, i - 1), TRUE, From(s, i + 1)>>

\* s.rpartition(c): <<before, found, after>>
RPartition(s, c) ==
    LET i == RFind(s, c)
    IN  IF i = 0 THEN <<<<>>, FALSE, s>>
        ELSE <<SubSeq(s, 1, i - 1), TRUE, From(s, i + 1)>>

\* the whitespace str.strip() removes
Whitespace == {9, 10, 11, 12, 13, 28, 29, 30, 31, 32}

\* s.strip()
Strip(s) ==
    LET keep == {i \in 1..Len(s) : s[i] \notin Whitespace}
    IN  IF keep = {} THEN <<>>
        ELSE SubSeq(s, CHOOSE i \in keep : \A j \in keep : i <= j,
                       CHOOSE i \in keep : \A j \in keep : i >= j)

\* s.lower() on ASCII
Lower(s) ==
    [i \in 1..Len(s) |->
        IF s[i] >= Chr.upperA /\ s[i] <= Chr.upperZ THEN s[i] + 32 ELSE s[i]]

IsDigits(s) ==
    s # <<>> /\ \A i \in 1..Len(s) : s[i] >= Chr.zero /\ s[i] <= Chr.nine

\* the number written by a str of digits
RECURSIVE DigitsValue(_)
DigitsValue(s) ==
    IF s = <<>> THEN 0
    ELSE 10 * DigitsValue(SubSeq(s, 1, Len(s) - 1)) + (s[Len(s)] - Chr.zero)

\* bool(x) of a str or None, and of an int
Truthy(s) == s # None /\ s # <<>>

\* ---- urllib.parse.urlparse, as far as the parser reads its result ------
\* the characters a scheme may hold besides letters: digits, "+", "-", "."
IsSchemeChar(c) ==
    \/ c >= Chr.lowerA /\ c <= Chr.lowerZ
    \/ c >= Chr.upperA /\ c <= Chr.upperZ
    \/ c >= Chr.zero /\ c <= Chr.nine
    \/ c \in {Chr.plus, Chr.minus, 46}

\* urlparse(url): the netloc, query and fragment of the split.  The links of
\* the model hold no "[", "]" (which can make urlparse raise) and no tab,
\* CR or LF inside (which urlparse removes).
\* the index of the ":" that ends the scheme; 0 when the url has none
SchemeEnd(url) ==
    LET i == Find(url, Chr.colon)
    IN  IF i > 1 /\ \A j \in 1..(i - 1) : IsSchemeChar(url[j]) THEN i ELSE 0

\* <<netloc, what follows it>> of a url without its scheme: the netloc is
\* what stands between a leading "//" and the next "/", "?" or "#"
SplitNetlocAt(rest, delim) ==
    IF delim = 0 THEN <<From(rest, 3), <<>>>>
    ELSE <<SubSeq(rest, 3, delim - 1), From(rest, delim)>>

SplitNetloc(rest) ==
    IF ~StartsWith(rest, <<Chr.slash, Chr.slash>>) THEN <<<<>>, rest>>
    ELSE SplitNetlocAt(rest,
                       FindAny(rest, {Chr.slash, Chr.question, Chr.hash}, 3))

\* the fragment follows the first "#", the query the first "?" before it
SplitQuery(netloc, frag) ==
    [netloc   |-> netloc,
     query    |-> Partition(frag[1], Chr.question)[3],
     fragment |-> frag[3]]

SplitTail(split) == SplitQuery(split[1], Partition(split[2], Chr.hash))

urlparse(url) == SplitTail(SplitNetloc(From(url, SchemeEnd(url) + 1)))

\* url_parts.username, url_parts.password: the userinfo is what precedes the
\* last "@" of the netloc, split at its first ":"
UrlUsername(parts) ==
    LET info == RPartition(parts.netloc, Chr.at)
    IN  IF info[2] THEN Partition(info[1], Chr.colon)[1] ELSE None

UrlPassword(parts) ==
    LET info == RPartition(parts.netloc, Chr.at)
        user == Partition(info[1], Chr.colon)
    IN  IF info[2] /\ user[2] THEN user[3] ELSE None

\* url_parts.hostname
UrlHostname(parts) ==
    LET host == Partition(RPartition(parts.netloc, Chr.at)[3], Chr.colon)[1]
    IN  IF host = <<>> THEN None ELSE Lower(host)

\* url_parts.port: Absent for None; PortError when the property raises
\* ValueError (not a number, or out of range 0-65535)
PortError == 0 - 2
MaxPort   == 65535

PortNumber(port) ==
    IF port = <<>> THEN Absent
    ELSE IF ~IsDigits(port) THEN PortError
    ELSE IF DigitsValue(port) > MaxPort THEN PortError
    ELSE DigitsValue(port)

UrlPort(parts) ==
    PortNumber(Partition(RPartition(parts.netloc, Chr.at)[3], Chr.colon)[3])

\* parse_qs(query).get(key, [""])[0]: the first non-blank value of key
RECURSIVE QueryValue(_, _)
QueryValue(query, key) ==
    IF query = <<>> THEN <<>>
    ELSE LET field == Partition(query, Chr.amp)
             pair  == Partition(field[1], Chr.equals)
         IN  IF pair[1] = key /\ pair[3] # <<>> THEN pair[3]
             ELSE QueryValue(field[3], key)

\* ---- base64.b64decode(text).decode('utf-8') ---------------------------
\* the six bits a character of the base64 alphabet stands for; Absent for
\* any other character
B64Value(c) ==
    IF c >= Chr.upperA /\ c <= Chr.upperZ THEN c - Chr.upperA
    ELSE IF c >= Chr.lowerA /\ c <= Chr.lowerZ THEN c - Chr.lowerA + 26
    ELSE IF c >= Chr.zero /\ c <= Chr.nine THEN c - Chr.zero + 52
    ELSE IF c = Chr.plus THEN 62
    ELSE IF c = Chr.slash THEN 63
    ELSE Absent

\* the scan of binascii.a2b_base64 (not strict): characters outside the
\* alphabet are skipped, data that ends inside a quad is an error, and the
\* scan ends at the "=" that completes a quad: the first "=" after three
\* characters of a quad, the second after two.
IsB64Seen(c) == c = Chr.equals \/ B64Value(c) # Absent
IsB64Data(c) == c # Chr.equals

\* whether the "=" at index i of the characters the scan looks at ends it
EndsData(seen, i) ==
    LET quad == Len(SelectSeq(SubSeq(seen, 1, i - 1), IsB64Data)) % 4
    IN  quad = 3 \/ (quad = 2 /\ seen[i - 1] = Chr.equals)

\* the index of the "=" that ends the scan, looked for from the "=" at
\* index i on (i = 0: there is no "=" left); 0 when none does
RECURSIVE B64Stop(_, _)
B64Stop(seen, i) ==
    IF i = 0 THEN 0
    ELSE IF EndsData(seen, i) THEN i
    ELSE B64Stop(seen, FindAny(seen, {Chr.equals}, i + 1))

\* <<ok, the characters of the data>>
B64Kept(stop, kept) == <<stop # 0 \/ Len(kept) % 4 = 0, kept>>

B64Cut(seen, stop) ==
    B64Kept(stop, SelectSeq(IF stop = 0 THEN seen
                            ELSE SubSeq(seen, 1, stop - 1), IsB64Data))

B64Seen(seen) == B64Cut(seen, B64Stop(seen, FindAny(seen, {Chr.equals}, 1)))

B64Scan(text) == B64Seen(SelectSeq(text, IsB64Seen))

\* the bytes the characters of the data hold, six bits each
B64Bytes(data) ==
    [k \in 1..((Len(data) * 6) \div 8) |->
        LET q  == ((k - 1) * 8) \div 6 + 1
            r  == ((k - 1) * 8) % 6
            hi == B64Value(data[q])
            lo == B64Value(data[q + 1])
        IN  IF r = 0 THEN hi * 4 + lo \div 16
            ELSE IF r = 2 THEN (hi % 16) * 16 + lo \div 4
            ELSE (hi % 4) * 64 + lo]

\* bytes.decode('utf-8') succeeds
Utf8Valid(b) ==
    LET Cont(i)  == i <= Len(b) /\ b[i] >= 128 /\ b[i] <= 191
        Width(c) == IF c < 128 THEN 1
                    ELSE IF c >= 194 /\ c <= 223 THEN 2
                    ELSE IF c >= 224 /\ c <= 239 THEN 3
                    ELSE IF c >= 240 /\ c <= 244 THEN 4
                    ELSE 0
        Second(lead, c) ==
            IF lead = 224 THEN c >= 160
            ELSE IF lead = 237 THEN c <= 159
            ELSE IF lead = 240 THEN c >= 144
            ELSE IF lead = 244 THEN c <= 143
            ELSE TRUE
    IN  \A i \in 1..Len(b) :
            IF Cont(i)
            THEN \E j \in 1..(i - 1) :
                     /\ Width(b[j]) > i - j
                     /\ \A k \in (j + 1)..(i - 1) : Cont(k)
            ELSE /\ Width(b[i]) > 0
                 /\ \A k \in (i + 1)..(i + Width(b[i]) - 1) : Cont(k)
                 /\ Width(b[i]) > 1 => Second(b[i], b[i + 1])

\* base64.b64decode(text).decode('utf-8'): the str (its UTF-8 bytes), or
\* None when either step raises
DecodeUtf8(bytes) ==
    IF bytes # None /\ Utf8Valid(bytes) THEN bytes ELSE None

B64Data(scan) == IF scan[1] THEN B64Bytes(scan[2]) ELSE None

B64DecodeUtf8(text) == DecodeUtf8(B64Data(B64Scan(text)))

\* text += '=' * (4 - len(text) % 4) when len(text) % 4 is not 0
PadToQuad(text) ==
    IF Len(text) % 4 = 0 THEN text
    ELSE text \o [i \in 1..(4 - (Len(text) % 4)) |-> Chr.equals]

\* ---- the node dicts ------------------------------------------------------
\* A parsed node, by the keys the protocols' mandatory fields live in (the
\* name and the optional keys are left out); a key the protocol does not
\* have is None.  NoNode is the return value None; Raised stands for an
\* exception leaving the body of a parser.
Raised == [NoNode EXCEPT !.protocol = "raised"]

IsNode(node) == node.protocol \notin {"none", "raised"}

\* try: ... except Exception: return None
TryReraise(outcome) == outcome

Try(outcome) == IF outcome.protocol = "raised" THEN NoNode ELSE outcome

\* int(url_parts.port or default)
PortOr(port, default) ==
    IF port = PortError THEN PortError
    ELSE IF port = Absent \/ port = 0 THEN default
    ELSE port

IntPortOr(parts, default) == PortOr(UrlPort(parts), default)

\* a node built from the parts of the link and its port
WithPort(Node(_, _), url_parts, default) ==
    Node(url_parts, IntPortOr(url_parts, default))

\* ---- parse_vmess_link ----------------------------------------------------
\* The payload of a vmess link is the base64 text of a JSON document.  The
\* model writes such a text as one character code from VmessPayloads (no
\* byte, so no parser takes it for a delimiter); VmessDoc gives what
\* json.loads(base64.b64decode(text).decode('utf-8')) makes of it.  The
\* members of an object are drawn independently:
\*   "add"  : missing | "" | "h"
\*   "port" : missing | null | 443 | 0 | 70000 | -5 | "443" | "x"
\*   "id"   : missing | "u"
\*   "aid"  : missing | "x"
FirstPayload == 256
AddMembers   == <<None, <<>>, <<104>>>>
PortMembers  ==
    <<[kind |-> "missing", int |-> 0, str |-> <<>>],
      [kind |-> "null", int |-> 0, str |-> <<>>],
      [kind |-> "int", int |-> 443, str |-> <<>>],
      [kind |-> "int", int |-> 0, str |-> <<>>],
      [kind |-> "int", int |-> 70000, str |-> <<>>],
      [kind |-> "int", int |-> 0 - 5, str |-> <<>>],
      [kind |-> "str", int |-> 0, str |-> <<52, 52, 51>>],
      [kind |-> "str", int |-> 0, str |-> <<120>>]>>
IdMembers    == <<None, <<117>>>>
AidMembers   ==
    <<[kind |-> "missing", int |-> 0, str |-> <<>>],
      [kind |-> "str", int |-> 0, str |-> <<120>>]>>

ObjectPayloads ==
    Len(AddMembers) * Len(PortMembers) * Len(IdMembers) * Len(AidMembers)

\* after the objects: a JSON array, a text that is no JSON, a text that is
\* no base64 of UTF-8
OtherDocs == <<"array", "not_json", "not_base64">>

VmessPayloads ==
    FirstPayload..(FirstPayload + ObjectPayloads + Len(OtherDocs) - 1)

VmessDoc(code) ==
    LET k == code - FirstPayload
    IN  IF k >= ObjectPayloads
        THEN [kind |-> OtherDocs[k - ObjectPayloads + 1], add |-> None,
              port |-> PortMembers[1], id |-> None, aid |-> AidMembers[1]]
        ELSE [kind |-> "object",
              add  |-> AddMembers[(k % Len(AddMembers)) + 1],
              port |-> PortMembers[((k \div Len(AddMembers))
                                       % Len(PortMembers)) + 1],
              id   |-> IdMembers[((k \div (Len(AddMembers) * Len(PortMembers)))
                                     % Len(IdMembers)) + 1],
              aid  |-> AidMembers[(k \div (Len(AddMembers) * Len(PortMembers)
                                              * Len(IdMembers))) + 1]]

\* int(node_info.get(key, default)): PortError when int() raises
IntMember(member, default) ==
    IF member.kind = "missing" THEN default
    ELSE IF member.kind = "int" THEN member.int
    ELSE IF member.kind = "str" /\ IsDigits(member.str)
         THEN DigitsValue(member.str)
    ELSE PortError

\* lines 17-49: the body of the try
VmessBody(link) ==
    LET encoded_data == Strip(From(link, Len(VmessPrefix) + 1))
        known == Len(encoded_data) = 1 /\ encoded_data[1] \in VmessPayloads
        doc   == VmessDoc(encoded_data[1])
        port  == IntMember(doc.port, 443)
        alterId == IntMember(doc.aid, 0)
    IN  \* any other text of the model decodes to no JSON object
        IF ~known THEN Raised
        ELSE IF doc.kind # "object" THEN Raised
        ELSE IF port = PortError \/ alterId = PortError THEN Raised
        ELSE IF ~(Truthy(doc.add) /\ port # 0 /\ Truthy(doc.id)) THEN NoNode
        ELSE [NoNode EXCEPT !.protocol = "vmess", !.server = doc.add,
                            !.port = port, !.uuid = doc.id]

parse_vmess_link(link) ==
    IF ~StartsWith(link, VmessPrefix) THEN NoNode ELSE Try(VmessBody(link))

\* ---- parse_vless_link ----------------------------------------------------
VlessNode(url_parts, port) ==
    LET server == UrlHostname(url_parts)
        uuid   == UrlUsername(url_parts)
    IN  IF port = PortError THEN Raised
        ELSE IF ~(Truthy(server) /\ port # 0 /\ Truthy(uuid)) THEN NoNode
        ELSE [NoNode EXCEPT !.protocol = "vless", !.server = server,
                            !.port = port, !.uuid = uuid]

VlessBody(link) == WithPort(VlessNode, urlparse(link), 443)

parse_vless_link(link) ==
    IF ~StartsWith(link, VlessPrefix) THEN NoNode ELSE Try(VlessBody(link))

\* ---- parse_shadowsocks_link ---------------------------------------------
\* lines 108-132: <<method, password>>; <<None, None>> when the inner
\* except returns None
SsEncodedPart(link) ==
    LET rest == From(link, Len(SsPrefix) + 1)
    IN  IF Find(link, Chr.at) # 0 THEN Partition(rest, Chr.at)[1]
        ELSE Partition(rest, Chr.hash)[1]

SsSplit(decoded) ==
    LET split == Partition(decoded, Chr.colon)
    IN  IF decoded = None THEN <<None, None>>
        ELSE IF split[2] THEN <<split[1], split[3]>>
        ELSE <<DefaultSsMethod, decoded>>

SsCredentials(link, url_parts) ==
    IF Truthy(UrlUsername(url_parts)) /\ Truthy(UrlPassword(url_parts))
    THEN <<UrlUsername(url_parts), UrlPassword(url_parts)>>
    ELSE SsSplit(B64DecodeUtf8(PadToQuad(SsEncodedPart(link))))

SsNode(url_parts, port, credentials) ==
    LET server == UrlHostname(url_parts)
    IN  IF credentials = <<None, None>> THEN NoNode
        ELSE IF port = PortError THEN Raised
        ELSE IF ~(Truthy(server) /\ port # 0 /\ Truthy(credentials[1])
                    /\ Truthy(credentials[2])) THEN NoNode
        ELSE [NoNode EXCEPT !.protocol = "shadowsocks", !.server = server,
                            !.port = port, !.method = credentials[1],
                            !.password = credentials[2]]

\* a shadowsocks node built from the parts of the link, its port and its
\* credentials
WithCredentials(Node(_, _, _), link, url_parts) ==
    Node(url_parts, IntPortOr(url_parts, 8388),
         SsCredentials(link, url_parts))

SsBody(link) == WithCredentials(SsNode, link, urlparse(link))

parse_shadowsocks_link(link) ==
    IF ~StartsWith(link, SsPrefix) THEN NoNode ELSE Try(SsBody(link))

\* ---- parse_hysteria2_link -----------------------------------------------
Hysteria2Node(url_parts, port) ==
    LET server   == UrlHostname(url_parts)
        password == IF Truthy(UrlUsername(url_parts))
                    THEN UrlUsername(url_parts)
                    ELSE QueryValue(url_parts.query, AuthKey)
    IN  IF port = PortError THEN Raised
        ELSE IF ~(Truthy(server) /\ port # 0) THEN NoNode
        ELSE [NoNode EXCEPT !.protocol = "hysteria2", !.server = server,
                            !.port = port, !.password = password]

Hysteria2Body(link) == WithPort(Hysteria2Node, urlparse(link), 443)

parse_hysteria2_link(link) ==
    IF ~(StartsWith(link, Hy2Prefix) \/ StartsWith(link, Hysteria2Prefix))
    THEN NoNode
    ELSE Try(Hysteria2Body(link))

\* ---- parse_trojan_link --------------------------------------------------
TrojanNode(url_parts, port) ==
    LET server   == UrlHostname(url_parts)
        password == UrlUsername(url_parts)
    IN  IF port = PortError THEN Raised
        ELSE IF ~(Truthy(server) /\ port # 0 /\ Truthy(password)) THEN NoNode
        ELSE [NoNode EXCEPT !.protocol = "trojan", !.server = server,
                            !.port = port, !.password = password]

TrojanBody(link) == WithPort(TrojanNode, urlparse(link), 443)

parse_trojan_link(link) ==
    IF ~StartsWith(link, TrojanPrefix) THEN NoNode ELSE Try(TrojanBody(link))

\* ---- parse_single_node --------------------------------------------------
parse_single_node(raw) ==
    LET link == Strip(raw)
    IN  IF StartsWith(link, VmessPrefix) THEN parse_vmess_link(link)
        ELSE IF StartsWith(link, VlessPrefix) THEN parse_vless_link(link)
        ELSE IF StartsWith(link, SsPrefix) THEN parse_shadowsocks_link(link)
        ELSE IF StartsWith(link, Hy2Prefix)
                  \/ StartsWith(link, Hysteria2Prefix)
             THEN parse_hysteria2_link(link)
        ELSE IF StartsWith(link, TrojanPrefix) THEN parse_trojan_link(link)
        ELSE NoNode

(***************************************************************************)
(* The links parse_single_node is applied to.  A link is written from its  *)
(* parts: a scheme prefix, a userinfo in one of the forms below, a host,   *)
(* a port text, a query and a fragment; a vmess link from a payload.       *)
(***************************************************************************)
\* the base64 character of six bits
B64Char(v) ==
    IF v < 26 THEN Chr.upperA + v
    ELSE IF v < 52 THEN Chr.lowerA + (v - 26)
    ELSE IF v < 62 THEN Chr.zero + (v - 52)
    ELSE IF v = 62 THEN Chr.plus
    ELSE Chr.slash

\* standard base64 of a sequence of bytes, padded
RECURSIVE B64Encode(_)
B64Encode(b) ==
    IF b = <<>> THEN <<>>
    ELSE IF Len(b) = 1
         THEN <<B64Char(b[1] \div 4), B64Char((b[1] % 4) * 16),
                Chr.equals, Chr.equals>>
    ELSE IF Len(b) = 2
         THEN <<B64Char(b[1] \div 4),
                B64Char((b[1] % 4) * 16 + b[2] \div 16),
                B64Char((b[2] % 16) * 4), Chr.equals>>
    ELSE <<B64Char(b[1] \div 4),
           B64Char((b[1] % 4) * 16 + b[2] \div 16),
           B64Char((b[2] % 16) * 4 + b[3] \div 64),
           B64Char(b[3] % 64)>> \o B64Encode(From(b, 4))

Unpadded(text) == SelectSeq(text, LAMBDA c : c # Chr.equals)

\* the scheme prefixes links are written with: the six of the parser,
\* "http://" and "SS://"
SchemePrefix(scheme) ==
    CASE scheme = "vmess"     -> VmessPrefix
      [] scheme = "vless"     -> VlessPrefix
      [] scheme = "ss"        -> SsPrefix
      [] scheme = "hy2"       -> Hy2Prefix
      [] scheme = "hysteria2" -> Hysteria2Prefix
      [] scheme = "trojan"    -> TrojanPrefix
      [] scheme = "http"      -> <<104, 116, 116, 112, 58, 47, 47>>
      [] OTHER                -> <<83, 83, 58, 47, 47>>

UrlSchemes == {"vless", "ss", "hy2", "hysteria2", "trojan", "http", "SS"}

\* "", "m"
MethodTexts   == {<<>>, <<109>>}
\* "", "p", "p:q", "?", and "xx" followed by the two UTF-8 bytes of the
\* inverted question mark U+00BF
PasswordTexts == {<<>>, <<112>>, <<112, 58, 113>>, <<63>>,
                  <<120, 120, 194, 191>>}
\* "", "H"
HostTexts     == {<<>>, <<72>>}
\* what follows the host: nothing (None), ":" and "", "0", "1", "65535",
\* "65536", "-1", "x"
PortTexts     == {None, <<>>, <<48>>, <<49>>, <<54, 53, 53, 51, 53>>,
                  <<54, 53, 53, 51, 54>>, <<45, 49>>, <<120>>}
\* no query (None), "auth=t"
QueryTexts    == {None, <<97, 117, 116, 104, 61, 116>>}
\* no fragment (None), "n"
FragmentTexts == {None, <<110>>}

\* the forms of the userinfo:
\*   none            no userinfo and no "@"
\*   single          method@
\*   plain           method:password@
\*   base64          base64(method:password)@, padded
\*   base64_unpadded the same without the "="
\*   base64_whole    base64(method:password@host:port), no "@" in the link
CredentialForms == {"plain", "base64", "base64_unpadded", "base64_whole"}

UrlLinkParts ==
    {p \in [scheme : UrlSchemes,
            form : {"none", "single"} \cup CredentialForms,
            method : MethodTexts, password : PasswordTexts,
            host : HostTexts, port : PortTexts, query : QueryTexts,
            fragment : FragmentTexts, spaces : BOOLEAN, payload : {0}] :
        /\ p.form = "none" => p.method = <<>>
        /\ p.form \in {"none", "single"} => p.password = <<>>}

VmessLinkParts ==
    {[NoParts EXCEPT !.scheme = "vmess", !.payload = c, !.spaces = sp] :
        c \in VmessPayloads, sp \in BOOLEAN}

LinkInputs == UrlLinkParts \cup VmessLinkParts

\* host and port as the link spells them
HostPort(p) ==
    p.host \o (IF p.port = None THEN <<>> ELSE <<Chr.colon>> \o p.port)

Credentials(p) == p.method \o <<Chr.colon>> \o p.password

BuildLink(p) ==
    LET userinfo ==
            CASE p.form = "none"   -> <<>>
              [] p.form = "single" -> p.method \o <<Chr.at>>
              [] p.form = "plain"  -> Credentials(p) \o <<Chr.at>>
              [] p.form = "base64" ->
                     B64Encode(Credentials(p)) \o <<Chr.at>>
              [] p.form = "base64_unpadded" ->
                     Unpadded(B64Encode(Credentials(p))) \o <<Chr.at>>
              [] OTHER -> <<>>
        authority ==
            IF p.form = "base64_whole"
            THEN B64Encode(Credentials(p) \o <<Chr.at>> \o HostPort(p))
            ELSE userinfo \o HostPort(p)
        body ==
            IF p.scheme = "vmess" THEN <<p.payload>>
            ELSE authority
                 \o (IF p.query = None THEN <<>>
                     ELSE <<Chr.question>> \o p.query)
                 \o (IF p.fragment = None THEN <<>>
                     ELSE <<Chr.hash>> \o p.fragment)
        text == SchemePrefix(p.scheme) \o body
    IN  IF p.spaces THEN <<Chr.space>> \o text \o <<Chr.space, Chr.newline>>
        ELSE text

InitParse ==
    /\ linkParts \in LinkInputs
    /\ inputLink = BuildLink(linkParts)
    /\ parseDone = FALSE
    /\ parsed = NoNode
    /\ BatchIdle
    /\ AdvIdle
    /\ ScoreIdle
    /\ BucketIdle
    /\ SubIdle
    /\ SpeedIdle
    /\ ExtIdle

\* node = parse_single_node(link)
ParseLink ==
    /\ ~parseDone
    /\ parseDone' = TRUE
    /\ parsed' = parse_single_node(inputLink)
    /\ UNCHANGED <<linkParts, inputLink, batchVars, advVars, scoreVars,
                   bucketVars, subVars, speedVars, extVars>>

NextParse == ParseLink

SpecParse == InitParse /\ [][NextParse]_vars

(***************************************************************************)
(* src/subscription_analyzer.py: the line parsers of SubscriptionAnalyzer. *)
(* They return a dict whenever their body does not raise; no field is      *)
(* checked.                                                                *)
(***************************************************************************)
\* _parse_vmess, lines 193-213
AnalyzerVmessBody(link) ==
    LET encoded_data == Strip(From(link, Len(VmessPrefix) + 1))
        known == Len(encoded_data) = 1 /\ encoded_data[1] \in VmessPayloads
        doc   == VmessDoc(encoded_data[1])
        port  == IntMember(doc.port, 443)
        alterId == IntMember(doc.aid, 0)
    IN  IF ~known THEN Raised
        ELSE IF doc.kind # "object" THEN Raised
        ELSE IF port = PortError \/ alterId = PortError THEN Raised
        ELSE [NoNode EXCEPT !.protocol = "VMess", !.server = doc.add,
                            !.port = port, !.uuid = doc.id]

\* _parse_vless, lines 223-237
AnalyzerVlessNode(url_parts, port) ==
    IF port = PortError THEN Raised
    ELSE [NoNode EXCEPT !.protocol = "VLess",
                        !.server = UrlHostname(url_parts),
                        !.port = port, !.uuid = UrlUsername(url_parts)]

AnalyzerVlessBody(link) == WithPort(AnalyzerVlessNode, urlparse(link), 443)

\* _parse_shadowsocks, lines 247-273: a payload that does not decode raises
AnalyzerSsNode(url_parts, port, credentials) ==
    IF credentials = <<None, None>> THEN Raised
    ELSE IF port = PortError THEN Raised
    ELSE [NoNode EXCEPT !.protocol = "Shadowsocks",
                        !.server = UrlHostname(url_parts),
                        !.port = port, !.method = credentials[1],
                        !.password = credentials[2]]

AnalyzerSsBody(link) == WithCredentials(AnalyzerSsNode, link, urlparse(link))

\* _parse_trojan, lines 283-295
AnalyzerTrojanNode(url_parts, port) ==
    IF port = PortError THEN Raised
    ELSE [NoNode EXCEPT !.protocol = "Trojan",
                        !.server = UrlHostname(url_parts),
                        !.port = port,
                        !.password = UrlUsername(url_parts)]

AnalyzerTrojanBody(link) == WithPort(AnalyzerTrojanNode, urlparse(link), 443)

\* _parse_hysteria2, lines 305-317
AnalyzerHysteria2Node(url_parts, port) ==
    IF port = PortError THEN Raised
    ELSE [NoNode EXCEPT !.protocol = "Hysteria2",
                        !.server = UrlHostname(url_parts),
                        !.port = port,
                        !.password =
                            IF Truthy(UrlUsername(url_parts))
                            THEN UrlUsername(url_parts)
                            ELSE QueryValue(url_parts.query, AuthKey)]

AnalyzerHysteria2Body(link) ==
    WithPort(AnalyzerHysteria2Node, urlparse(link), 443)

\* SubscriptionAnalyzer._parse_single_node
_parse_single_node(line) ==
    IF StartsWith(line, VmessPrefix) THEN Try(AnalyzerVmessBody(line))
    ELSE IF StartsWith(line, VlessPrefix) THEN Try(AnalyzerVlessBody(line))
    ELSE IF StartsWith(line, SsPrefix) THEN Try(AnalyzerSsBody(line))
    ELSE IF StartsWith(line, TrojanPrefix) THEN Try(AnalyzerTrojanBody(line))
    ELSE IF StartsWith(line, Hy2Prefix) \/ StartsWith(line, Hysteria2Prefix)
         THEN Try(AnalyzerHysteria2Body(line))
    ELSE NoNode

(***************************************************************************)
(* A subscription URL resolved: parse_subscription_link of parser.py       *)
(* (fetch_subscription, parse_subscription_content) and                    *)
(* SubscriptionAnalyzer.analyze_subscription (the response headers it      *)
(* reads are left out).                                                    *)
(***************************************************************************)
MaxLines == 3

Resolvers     == {"parse_subscription_link", "analyze_subscription"}
FetchOutcomes == {"ok", "http_403", "http_500", "timeout",
                  "connection_error"}

\* the lines a body is written from: "ss://m:p@H:1", "trojan://m@H",
\* "trojan://@H" (no password), "ab==" (no link), and an empty line
SubLineTexts ==
    {BuildLink([NoParts EXCEPT !.scheme = "ss", !.form = "plain",
                               !.method = <<109>>, !.password = <<112>>,
                               !.host = <<72>>, !.port = <<49>>]),
     BuildLink([NoParts EXCEPT !.scheme = "trojan", !.form = "single",
                               !.method = <<109>>, !.host = <<72>>]),
     BuildLink([NoParts EXCEPT !.scheme = "trojan", !.form = "single",
                               !.host = <<72>>]),
     <<97, 98, 61, 61>>,
     <<>>}

SubBodies == UNION {[1..n -> SubLineTexts] : n \in 0..MaxLines}

\* "\n".join(lines)
RECURSIVE JoinLines(_)
JoinLines(lines) ==
    IF lines = <<>> THEN <<>>
    ELSE IF Len(lines) = 1 THEN lines[1]
    ELSE lines[1] \o <<Chr.newline>> \o JoinLines(Tail(lines))

\* response.text
BodyText(lines, encoded) ==
    IF encoded THEN B64Encode(JoinLines(lines)) ELSE JoinLines(lines)

\* text.split('\n')
RECURSIVE SplitLines(_)
SplitLines(text) ==
    LET cut == Partition(text, Chr.newline)
    IN  IF cut[2] THEN <<cut[1]>> \o SplitLines(cut[3]) ELSE <<text>>

\* parse_subscription_content lines 283-291, _parse_subscription_content
\* lines 147-154: the content is replaced by its base64 decoding whenever
\* that decoding succeeds, then stripped and split
ContentLines(content) ==
    LET decoded == B64DecodeUtf8(content)
    IN  SplitLines(Strip(IF decoded # None THEN decoded ELSE content))

\* the line parser each resolver uses
LineParser(resolver, line) ==
    IF resolver = "parse_subscription_link" THEN parse_single_node(line)
    ELSE _parse_single_node(line)

\* parse_subscription_link returns the list `nodes`
ListOutcome(nodes) ==
    [NoOutcome EXCEPT !.status = "list", !.nodes = nodes]

\* what a resolver returns when the request does not end in a 2xx response.
\* fetch_subscription answers None to every failure (lines 267-275) and
\* parse_subscription_link then returns []; analyze_subscription answers
\* 403 at lines 31-36, Timeout at 61-62, any other RequestException
\* (raise_for_status included) at 63-64.
FailureOutcome(resolver, fetch) ==
    IF resolver = "parse_subscription_link" THEN ListOutcome(<<>>)
    ELSE IF fetch = "http_403"
         THEN [NoOutcome EXCEPT !.status = "error", !.error = "waf_blocked",
                                !.error_code = 403]
    ELSE IF fetch = "timeout"
         THEN [NoOutcome EXCEPT !.status = "error", !.error = "fetch_timeout"]
    ELSE [NoOutcome EXCEPT !.status = "error", !.error = "request_failed"]

\* what a resolver returns after a 2xx response whose body gave `nodes`
SuccessOutcome(resolver, nodes) ==
    IF resolver = "parse_subscription_link" THEN ListOutcome(nodes)
    ELSE [NoOutcome EXCEPT !.status = "success", !.nodes = nodes]

InitSub ==
    /\ subResolver \in Resolvers
    /\ subFetch \in FetchOutcomes
    /\ subLines \in SubBodies
    /\ subEncoded \in BOOLEAN
    /\ subFetch # "ok" => (subLines = <<>> /\ subEncoded = FALSE)
    /\ subPc = "fetch"
    /\ subContent = <<>>
    /\ subPending = <<>>
    /\ subNodes = <<>>
    /\ subSkipLog = 0
    /\ subOutcome = NoOutcome
    /\ ParseIdle
    /\ SpeedIdle
    /\ BatchIdle
    /\ AdvIdle
    /\ ScoreIdle
    /\ BucketIdle
    /\ ExtIdle

\* parser.py lines 319-323 with fetch_subscription; analyzer lines 29-38.
\* parse_subscription_link treats an empty body like a failed fetch.
FetchSubscription ==
    /\ subPc = "fetch"
    /\ LET text   == BodyText(subLines, subEncoded)
           failed == \/ subFetch # "ok"
                     \/ (subResolver = "parse_subscription_link"
                            /\ text = <<>>)
       IN  IF failed
           THEN /\ subOutcome' = FailureOutcome(subResolver, subFetch)
                /\ subPc' = "done"
                /\ UNCHANGED subContent
           ELSE /\ subContent' = text
                /\ subPc' = "content"
                /\ UNCHANGED subOutcome
    /\ UNCHANGED <<subResolver, subFetch, subLines, subEncoded, subPending,
                   subNodes, subSkipLog, parseVars, speedVars, batchVars, advVars,
                   scoreVars, bucketVars, extVars>>

\* parser.py lines 279-292, analyzer lines 143-154
SplitContent ==
    /\ subPc = "content"
    /\ subPending' = ContentLines(subContent)
    /\ subPc' = "lines"
    /\ UNCHANGED <<subResolver, subFetch, subLines, subEncoded, subContent,
                   subNodes, subSkipLog, subOutcome, parseVars, speedVars, batchVars,
                   advVars, scoreVars, bucketVars, extVars>>

\* one turn of the loop: parser.py lines 294-304 (a line that gives no node
\* is logged), analyzer lines 156-164 (it is not)
KeepOrSkip(node) ==
    IF IsNode(node)
    THEN /\ subNodes' = Append(subNodes, node)
         /\ UNCHANGED subSkipLog
    ELSE /\ subSkipLog' = IF subResolver = "parse_subscription_link"
                          THEN subSkipLog + 1 ELSE subSkipLog
         /\ UNCHANGED subNodes

ParseNextLine ==
    /\ subPc = "lines"
    /\ subPending # <<>>
    /\ IF Strip(Head(subPending)) = <<>>
       THEN UNCHANGED <<subNodes, subSkipLog>>
       ELSE KeepOrSkip(LineParser(subResolver, Strip(Head(subPending))))
    /\ subPending' = Tail(subPending)
    /\ UNCHANGED <<subResolver, subFetch, subLines, subEncoded, subPc,
                   subContent, subOutcome, parseVars, speedVars, batchVars, advVars,
                   scoreVars, bucketVars, extVars>>

\* parser.py lines 309-310 and 330-331, analyzer lines 49-59
ReturnNodes ==
    /\ subPc = "lines"
    /\ subPending = <<>>
    /\ subOutcome' = SuccessOutcome(subResolver, subNodes)
    /\ subPc' = "done"
    /\ UNCHANGED <<subResolver, subFetch, subLines, subEncoded, subContent,
                   subPending, subNodes, subSkipLog, parseVars, speedVars, batchVars,
                   advVars, scoreVars, bucketVars, extVars>>

NextSub ==
    \/ FetchSubscription
    \/ SplitContent
    \/ ParseNextLine
    \/ ReturnNodes

SpecSub == InitSub /\ [][NextSub]_vars

(***************************************************************************)
(* The throughput probe on its own: test_http_speed_direct of              *)
(* speedtester.py and _multi_thread_speed_test of advanced_speedtester.py  *)
(* walking their endpoints, test_urls[:3] and speed_test_urls[:3].         *)
(***************************************************************************)
\* what one attempt can measure: Absent is an attempt that fails, a number
\* the download_speed_mbps of one that succeeds
SpeedSamples ==
    SingleSpeedResults \cup {Mbps(10), Mbps(15), Mbps(20), Mbps(21)}

\* the speed above which a tester stops: speedtester.py line 192,
\* advanced_speedtester.py line 169
GoodEnough(tester) == IF tester = "real" THEN Mbps(10) ELSE Mbps(20)

\* <<the speed returned, the endpoints attempted>>
SpeedProbe(tester, outcomes) ==
    IF tester = "real" THEN test_http_speed_direct(outcomes)
    ELSE _multi_thread_speed_test(outcomes)

InitSpeed ==
    /\ speedTester \in {"real", "advanced"}
    /\ urlOutcomes \in [1..SpeedUrls -> SpeedSamples]
    /\ speedDone = FALSE
    /\ urlsAttempted = 0
    /\ speedBest = Absent
    /\ ParseIdle
    /\ SubIdle
    /\ BatchIdle
    /\ AdvIdle
    /\ ScoreIdle
    /\ BucketIdle
    /\ ExtIdle

RunSpeedProbe ==
    /\ ~speedDone
    /\ speedDone' = TRUE
    /\ speedBest' = SpeedProbe(speedTester, urlOutcomes)[1]
    /\ urlsAttempted' = SpeedProbe(speedTester, urlOutcomes)[2]
    /\ UNCHANGED <<speedTester, urlOutcomes, parseVars, subVars, batchVars,
                   advVars, scoreVars, bucketVars, extVars>>

NextSpeed == RunSpeedProbe

SpecSpeed == InitSpeed /\ [][NextSpeed]_vars

(***************************************************************************)
(* The latency-stability probe on its own: _latency_stability_test of      *)
(* advanced_speedtester.py making its `count` connects one after another.  *)
(***************************************************************************)
\* the latency of one connect, in hundredths of a millisecond
StabilityLatencies == StabilitySamples \cup {Ms(20) + 1}

\* the keys of the returned dict
StabilityReport(res) ==
    [avg_latency |-> res.avg_latency, min_latency |-> res.min_latency,
     max_latency |-> res.max_latency, jitter |-> res.jitter,
     packet_loss |-> res.packet_loss]

InitStab ==
    /\ stabPc = "probing"
    /\ stabSamples = <<>>
    /\ stabReport = NoReport
    /\ BatchIdle
    /\ AdvIdle
    /\ ScoreIdle
    /\ BucketIdle
    /\ LibIdle
    /\ ConnIdle
    /\ StreamIdle
    /\ QuotaIdle
    /\ ClashIdle

\* lines 270-288: one pass of `for i in range(count)`; the connect either
\* appends its latency or raises and the loop continues
StabilityConnect ==
    /\ stabPc = "probing"
    /\ Len(stabSamples) < StabilityCount
    /\ \E l \in StabilityLatencies : stabSamples' = Append(stabSamples, l)
    /\ UNCHANGED <<stabPc, stabReport, batchVars, advVars, scoreVars,
                   bucketVars, libVars, connVars, streamVars, quotaVars,
                   clashVars>>

\* lines 290-307: the loop has ended, the dict is built and returned
StabilityReturn ==
    /\ stabPc = "probing"
    /\ Len(stabSamples) = StabilityCount
    /\ stabReport' =
           StabilityReport(_latency_stability_test(NewAdvResult, stabSamples))
    /\ stabPc' = "done"
    /\ UNCHANGED <<stabSamples, batchVars, advVars, scoreVars, bucketVars,
                   libVars, connVars, streamVars, quotaVars, clashVars>>

NextStab ==
    \/ StabilityConnect
    \/ StabilityReturn

SpecStab == InitStab /\ [][NextStab]_vars

(***************************************************************************)
(* One connectivity test on its own, step by step: test_tcp_connectivity   *)
(* of speedtester.py, _test_connectivity of advanced_speedtester.py.       *)
(***************************************************************************)
\* the dict the tester returns when the resolve-and-connect ends as ev
\* the time a connect can take: below the connect timeout of 10 s unless
\* the timeout expired
ConnectDurations(ev) ==
    IF ev = "timeout" THEN {Ms(10000)}
    ELSE ConnectLatencies \cup {Ms(1), Ms(200), Ms(1000), Ms(5000), Ms(9999)}

ConnectivityResult(tester, ev, l, g) ==
    IF tester = "real" THEN test_tcp_connectivity(ev, l, g)
    ELSE _test_connectivity(ev, l, g)

InitConn ==
    /\ connTester \in {"real", "advanced"}
    /\ connHost \in {"ip", "name"}
    /\ connPc = "resolve"
    /\ connTrace = <<>>
    /\ connEvent = "none"
    /\ connLatency = Absent
    /\ connResult = NoConnResult
    /\ StabIdle
    /\ BatchIdle
    /\ AdvIdle
    /\ ScoreIdle
    /\ BucketIdle
    /\ LibIdle
    /\ StreamIdle
    /\ QuotaIdle
    /\ ClashIdle

\* speedtester.py lines 115-123, advanced_speedtester.py lines 114-119: a
\* numeric address is used as it is; a name is resolved, and a name that
\* does not resolve returns before any socket is opened
ResolveHost ==
    /\ connPc = "resolve"
    /\ \/ /\ connHost = "ip"
          /\ connPc' = "connect"
          /\ UNCHANGED <<connTrace, connEvent, connResult>>
       \/ /\ connHost = "name"
          /\ connTrace' = Append(connTrace, "resolve")
          /\ \/ /\ connPc' = "connect"
                /\ UNCHANGED <<connEvent, connResult>>
             \/ /\ connEvent' = "dns_failed"
                /\ connResult' =
                       ConnectivityResult(connTester, "dns_failed", 0, "none")
                /\ connPc' = "done"
    /\ UNCHANGED <<connTester, connHost, connLatency, stabVars, batchVars,
                   advVars, scoreVars, bucketVars, libVars, streamVars,
                   quotaVars, clashVars>>

\* speedtester.py lines 125-153, advanced_speedtester.py lines 122-129 and
\* 146-149: the connect ends connected, refused, with the connect timeout
\* expired, or with another exception
OpenConnection ==
    /\ connPc = "connect"
    /\ connTrace' = Append(connTrace, "connect")
    /\ \E ev \in ConnectEvents \ {"dns_failed"} :
       \E l \in ConnectDurations(ev) :
          /\ connEvent' = ev
          /\ connLatency' = l
          /\ IF ev = "connected"
             THEN /\ connPc' = "geo"
                  /\ UNCHANGED connResult
             ELSE /\ connPc' = "done"
                  /\ connResult' = ConnectivityResult(connTester, ev, l, "none")
    /\ UNCHANGED <<connTester, connHost, stabVars, batchVars, advVars,
                   scoreVars, bucketVars, libVars, streamVars, quotaVars,
                   clashVars>>

\* speedtester.py lines 136-145, advanced_speedtester.py lines 131-144: the
\* geolocation lookup of a connected address, then the dict is returned
LookupGeo ==
    /\ connPc = "geo"
    /\ connTrace' = Append(connTrace, "geo")
    /\ \E g \in GeoReplies :
          connResult' =
              ConnectivityResult(connTester, "connected", connLatency, g)
    /\ connPc' = "done"
    /\ UNCHANGED <<connTester, connHost, connEvent, connLatency, stabVars,
                   batchVars, advVars, scoreVars, bucketVars, libVars,
                   streamVars, quotaVars, clashVars>>

NextConn ==
    \/ ResolveHost
    \/ OpenConnection
    \/ LookupGeo

SpecConn == InitConn /\ [][NextConn]_vars

(***************************************************************************)
(* One throughput attempt on its own, chunk by chunk:                      *)
(* _single_http_speed_test of speedtester.py and _test_single_server of    *)
(* advanced_speedtester.py.  Time runs in ticks of 5 s and the body        *)
(* arrives in pieces of 10 MB (many chunks of 8192 bytes each).            *)
(***************************************************************************)
Seconds(n)   == n \div 5
Megabytes(n) == n \div 10

\* self.timeout, self.test_duration and self.max_download_size of a tester
RequestTimeout(tester) == Seconds(30)
TestDuration(tester) ==
    IF tester = "real" THEN Seconds(15) ELSE Seconds(20)
MaxDownloadSize(tester) ==
    IF tester = "real" THEN Megabytes(50) ELSE Megabytes(100)

\* how much arrives between two looks at the clock, and how long it takes
PieceSizes == {1, 2, 4}
PieceTimes == {1, 2}

\* the dict of an attempt that did not stream to a measured end.  The
\* advanced tester returns None for every one of them.
AttemptFailed(tester, status) ==
    [status |-> IF tester = "real" THEN status ELSE "none",
     download_speed_mbps |-> Absent]

\* speedtester.py lines 256-281, advanced_speedtester.py lines 243-258: the
\* speed from the bytes counted and the time passed
AttemptMeasured(tester, downloaded, total_time) ==
    IF total_time > 0 /\ downloaded > 0
    THEN [status |-> "success",
          download_speed_mbps |-> RoundDiv(downloaded * Mbps(2), total_time)]
    ELSE AttemptFailed(tester, "failed")

InitStream ==
    /\ streamTester \in {"real", "advanced"}
    /\ streamPc = "request"
    /\ streamDownloaded = 0
    /\ streamElapsed = 0
    /\ streamEnd = "none"
    /\ streamResult = NoStreamResult
    /\ StabIdle
    /\ ConnIdle
    /\ BatchIdle
    /\ AdvIdle
    /\ ScoreIdle
    /\ BucketIdle
    /\ LibIdle
    /\ QuotaIdle
    /\ ClashIdle

\* speedtester.py lines 217-230 and 283-297, advanced_speedtester.py lines
\* 216-227 and 261-263: the request is answered 200, answered otherwise, or
\* raises before a response
SendRequest ==
    /\ streamPc = "request"
    /\ \/ /\ streamPc' = "streaming"
          /\ UNCHANGED <<streamEnd, streamResult>>
       \/ \E end \in {"http_status", "timeout", "connection_error"} :
             /\ streamEnd' = end
             /\ streamResult' =
                    AttemptFailed(streamTester,
                                  IF end = "http_status" THEN "failed" ELSE end)
             /\ streamPc' = "done"
    /\ UNCHANGED <<streamTester, streamDownloaded, streamElapsed, stabVars,
                   connVars, batchVars, advVars, scoreVars, bucketVars,
                   libVars, quotaVars, clashVars>>

\* one turn of the chunk loop: speedtester.py lines 236-255,
\* advanced_speedtester.py lines 229-241.  The piece is counted, then the
\* size cap and the duration cap are looked at; a cap that is passed breaks
\* the loop and the attempt returns what it measured.
ReceivePiece ==
    /\ streamPc = "streaming"
    /\ \E size \in PieceSizes, dt \in PieceTimes :
          LET downloaded == streamDownloaded + size
              now        == streamElapsed + dt
              capped     == IF downloaded > MaxDownloadSize(streamTester)
                            THEN "size_cap"
                            ELSE IF now > TestDuration(streamTester)
                            THEN "duration_cap"
                            ELSE "none"
          IN  /\ streamDownloaded' = downloaded
              /\ streamElapsed' = now
              /\ streamEnd' = capped
              /\ IF capped = "none"
                 THEN UNCHANGED <<streamPc, streamResult>>
                 ELSE /\ streamPc' = "done"
                      /\ streamResult' =
                             AttemptMeasured(streamTester, downloaded, now)
    /\ UNCHANGED <<streamTester, stabVars, connVars, batchVars, advVars,
                   scoreVars, bucketVars, libVars, quotaVars, clashVars>>

\* the body ends: the loop is left and the attempt returns what it measured
BodyEnds ==
    /\ streamPc = "streaming"
    /\ \E dt \in PieceTimes :
          /\ streamElapsed' = streamElapsed + dt
          /\ streamResult' =
                 AttemptMeasured(streamTester, streamDownloaded,
                                 streamElapsed + dt)
    /\ streamEnd' = "body_end"
    /\ streamPc' = "done"
    /\ UNCHANGED <<streamTester, streamDownloaded, stabVars, connVars,
                   batchVars, advVars, scoreVars, bucketVars, libVars,
                   quotaVars, clashVars>>

\* the timeout of the request expires while the body is streaming.
\* requests (timeout=self.timeout, a read timeout) raises ConnectionError
\* out of iter_content after self.timeout without a byte; aiohttp
\* (ClientTimeout(total=self.timeout)) raises TimeoutError out of
\* iter_chunked once self.timeout has passed since the request.  The
\* exception leaves the loop to the except clauses: speedtester.py lines
\* 288-292, advanced_speedtester.py lines 261-263.
TimeoutFires ==
    /\ streamPc = "streaming"
    /\ streamElapsed' =
           IF streamTester = "real"
           THEN streamElapsed + RequestTimeout(streamTester)
           ELSE RequestTimeout(streamTester)
    /\ streamEnd' = "timeout"
    /\ streamResult' = AttemptFailed(streamTester, "connection_error")
    /\ streamPc' = "done"
    /\ UNCHANGED <<streamTester, streamDownloaded, stabVars, connVars,
                   batchVars, advVars, scoreVars, bucketVars, libVars,
                   quotaVars, clashVars>>

NextStream ==
    \/ SendRequest
    \/ ReceivePiece
    \/ BodyEnds
    \/ TimeoutFires

SpecStream == InitStream /\ [][NextStream]_vars

(***************************************************************************)
(* SubscriptionAnalyzer.analyze_subscription after the request was         *)
(* answered 200: _extract_subscription_info reads the                      *)
(* subscription-userinfo header, _parse_subscription_content the body.     *)
(***************************************************************************)
\* a header value int() does not take: the key keeps the text
NotANumber == 0 - 2

\* the values a key of the header can have: Absent when the header does not
\* name the key
TrafficValues == {Absent, NotANumber, 0, 1, 3}
ExpireValues  == {Absent, NotANumber, 1}

QuotaHeaders ==
    {NoHeader} \cup
    [upload : TrafficValues, download : TrafficValues, total : TrafficValues,
     expire : ExpireValues, present : {TRUE}]

QuotaBodies == {b \in SubBodies : Len(b) <= 1}

\* _parse_userinfo, lines 104-139.  A key whose value is not a number keeps
\* the text (lines 113-116), and the arithmetic on it raises TypeError:
\* upload + download of a text and a number at line 120, the division of a
\* text at lines 121 and 124 (two texts are concatenated at line 120 and
\* the result divided at line 121).  used_traffic / total at line 128 raises
\* ZeroDivisionError when total is 0.  The expire key is read inside a
\* try (lines 130-137).
_parse_userinfo(userinfo) ==
    LET upload   == userinfo.upload
        download == userinfo.download
        total    == userinfo.total
        both     == upload # Absent /\ download # Absent
        summed   == both /\ upload # NotANumber /\ download # NotANumber
        raises   == \/ both /\ ~summed
                    \/ total = NotANumber
                    \/ total = 0 /\ summed
    IN  IF raises THEN [NoInfo EXCEPT !.raised = TRUE]
        ELSE [used_traffic |-> IF summed THEN <<upload + download>> ELSE <<>>,
              total |-> IF total # Absent THEN <<total>> ELSE <<>>,
              remaining_traffic |->
                  IF total # Absent /\ summed
                  THEN <<total - (upload + download)>> ELSE <<>>,
              usage_percentage |->
                  IF total # Absent /\ summed
                  THEN <<RoundDiv((upload + download) * Pct(100), total)>>
                  ELSE <<>>,
              expire_date |->
                  IF userinfo.expire \notin {Absent, NotANumber}
                  THEN <<userinfo.expire>> ELSE <<>>,
              raised |-> FALSE]

\* _extract_subscription_info, lines 69-102: the header is parsed when the
\* response has it
_extract_subscription_info(header) ==
    IF header.present THEN _parse_userinfo(header) ELSE NoInfo

\* _parse_subscription_content, lines 141-168: the nodes of the lines that
\* parse, in line order
_parse_subscription_content(content) ==
    LET lines == SelectSeq(ContentLines(content),
                           LAMBDA l : Strip(l) # <<>>)
    IN  SelectSeq([i \in 1..Len(lines) |-> _parse_single_node(Strip(lines[i]))],
                  IsNode)

\* lines 65-67: an exception that is no RequestException
AnalysisFailed ==
    [NoOutcome EXCEPT !.status = "error", !.error = "analysis_failed"]

InitQuota ==
    /\ quotaHeader \in QuotaHeaders
    /\ quotaLines \in QuotaBodies
    /\ quotaPc = "extract"
    /\ quotaInfo = NoInfo
    /\ quotaOutcome = NoOutcome
    /\ StabIdle
    /\ ConnIdle
    /\ StreamIdle
    /\ BatchIdle
    /\ AdvIdle
    /\ ScoreIdle
    /\ BucketIdle
    /\ LibIdle
    /\ ClashIdle

\* lines 40-41, and 65-67 when _parse_userinfo raises
ExtractSubscriptionInfo ==
    /\ quotaPc = "extract"
    /\ LET info == _extract_subscription_info(quotaHeader)
       IN  IF info.raised
           THEN /\ quotaOutcome' = AnalysisFailed
                /\ quotaPc' = "done"
                /\ UNCHANGED quotaInfo
           ELSE /\ quotaInfo' = info
                /\ quotaPc' = "content"
                /\ UNCHANGED quotaOutcome
    /\ UNCHANGED <<quotaHeader, quotaLines, stabVars, connVars, streamVars,
                   batchVars, advVars, scoreVars, bucketVars, libVars,
                   clashVars>>

\* lines 43-59
ParseSubscriptionContent ==
    /\ quotaPc = "content"
    /\ quotaOutcome' =
           SuccessOutcome("analyze_subscription",
               _parse_subscription_content(BodyText(quotaLines, FALSE)))
    /\ quotaPc' = "done"
    /\ UNCHANGED <<quotaHeader, quotaLines, quotaInfo, stabVars, connVars,
                   streamVars, batchVars, advVars, scoreVars, bucketVars,
                   libVars, clashVars>>

NextQuota ==
    \/ ExtractSubscriptionInfo
    \/ ParseSubscriptionContent

SpecQuota == InitQuota /\ [][NextQuota]_vars

(***************************************************************************)
(* FullTclashIntegration.batch_test_nodes: the Clash core is started, the  *)
(* nodes are tested through it one after another, the core is stopped and  *)
(* the shared HTTP session closed.                                         *)
(***************************************************************************)
MaxClashNodes == 3

\* the single dict returned when the core did not start: lines 490 and 514
BatchError == [node |-> 0, kind |-> "batch_error"]

\* what test_node_with_clash returns for node n: the dict of its tests, or
\* the error dict of its except branch (lines 246-270)
NodeTestResults(n) == {[node |-> n, kind |-> k] : k \in {"tested", "error"}}

InitClash ==
    /\ clashNodes \in 0..MaxClashNodes
    /\ clashPc = "start"
    /\ clash_process = "None"
    /\ session \in {"None", "open"}
    /\ coreStarted = FALSE
    /\ clashTested = 0
    /\ clashResults = <<>>
    /\ StabIdle
    /\ ConnIdle
    /\ StreamIdle
    /\ QuotaIdle
    /\ BatchIdle
    /\ AdvIdle
    /\ ScoreIdle
    /\ BucketIdle
    /\ LibIdle

\* start_clash_core (lines 204-230) and lines 489-490 of batch_test_nodes.
\* Writing the config or Popen raises: nothing is assigned, False.  Popen
\* returns and the core is alive after 3 s: True.  Popen returns and the
\* core has exited by then: False, and self.clash_process keeps the Popen
\* object.  On False batch_test_nodes returns the error list at line 490,
\* before the try whose finally stops the core.
start_clash_core ==
    /\ clashPc = "start"
    /\ \/ /\ coreStarted' = TRUE
          /\ clash_process' = "running"
          /\ clashPc' = "testing"
          /\ UNCHANGED clashResults
       \/ /\ coreStarted' = FALSE
          /\ clash_process' \in {clash_process, "exited"}
          /\ clashResults' = <<BatchError>>
          /\ clashPc' = "closing"
    /\ UNCHANGED <<clashNodes, session, clashTested, stabVars, connVars,
                   streamVars, quotaVars, batchVars, advVars, scoreVars,
                   bucketVars, libVars>>

\* one turn of the loop, lines 496-504.  test_node_with_clash catches every
\* exception of its tests; its first step, switch_clash_proxy, opens the
\* shared session (init_session, line 280).  The core may exit at any time.
test_node_with_clash ==
    /\ clashPc = "testing"
    /\ clashTested < clashNodes
    /\ \E result \in NodeTestResults(clashTested + 1) :
          clashResults' = Append(clashResults, result)
    /\ clashTested' = clashTested + 1
    /\ session' = "open"
    /\ clash_process' \in {clash_process, "exited"}
    /\ UNCHANGED <<clashNodes, clashPc, coreStarted, stabVars, connVars,
                   streamVars, quotaVars, batchVars, advVars, scoreVars,
                   bucketVars, libVars>>

\* the finally of the loop, lines 506-508: stop_clash_core (lines 232-243)
\* terminates the process, kills it after 5 s, and drops the reference
stop_clash_core ==
    /\ clashPc = "testing"
    /\ clashTested = clashNodes
    /\ clash_process' = "None"
    /\ clashPc' = "closing"
    /\ UNCHANGED <<clashNodes, session, coreStarted, clashTested,
                   clashResults, stabVars, connVars, streamVars, quotaVars,
                   batchVars, advVars, scoreVars, bucketVars, libVars>>

\* the outer finally, lines 515-516: close_session (lines 81-85), then the
\* return takes effect
close_session ==
    /\ clashPc = "closing"
    /\ session' = "None"
    /\ clashPc' = "returned"
    /\ UNCHANGED <<clashNodes, clash_process, coreStarted, clashTested,
                   clashResults, stabVars, connVars, streamVars, quotaVars,
                   batchVars, advVars, scoreVars, bucketVars, libVars>>

NextClash ==
    \/ start_clash_core
    \/ test_node_with_clash
    \/ stop_clash_core
    \/ close_session

SpecClash == InitClash /\ [][NextClash]_vars

(***************************************************************************)
(* Claims about test_multiple_nodes (Spec)                                 *)
(***************************************************************************)
CallEnded == pc \in {"returned", "raised"}

ResultsOf(n) == {i \in 1..Len(results) : results[i].node = n}

\* Whenever the call returns, the returned list holds exactly one dict per
\* input node.
ReturnedListComplete ==
    pc = "returned" =>
        /\ Len(results) = numNodes
        /\ \A n \in InputNodes : Cardinality(ResultsOf(n)) = 1

\* C1 (as claimed): every call of test_multiple_nodes ends by returning a
\* list with exactly one result per input node, whichever probes fail,
\* raise or time out.
C1_ExactlyOneResultPerNode ==
    CallEnded =>
        /\ pc = "returned"
        /\ Len(results) = numNodes
        /\ \A n \in InputNodes : Cardinality(ResultsOf(n)) = 1

\* C2 (as claimed): once the batch deadline has expired the call returns a
\* list in which every node not started by then is present with a
\* not-attempted status; it does not raise, and no probe that had not
\* started is run afterwards.
C2_DeadlineReturnsNotAttempted ==
    deadlineHit =>
        /\ pc # "raised"
        /\ \A n \in unstartedAtDeadline : phase[n] = "queued"
        /\ CallEnded =>
               \A n \in unstartedAtDeadline :
                   \E i \in ResultsOf(n) : results[i].status = "not_attempted"

\* C3 (as claimed): when the probe of a node has raised, the call still
\* returns; the returned list holds exactly one dict for that node, the
\* synthetic one with the error and quality_score 0, and one dict for every
\* other node.
C3_ProbeExceptionIsolated ==
    \A n \in InputNodes :
        (phase[n] = "raised" /\ CallEnded) =>
            /\ pc = "returned"
            /\ Cardinality(ResultsOf(n)) = 1
            /\ \A i \in ResultsOf(n) :
                   results[i].error = "exception"
                   /\ results[i].quality_score = 0
            /\ \A m \in InputNodes : ResultsOf(m) # {}

(***************************************************************************)
(* Claims about one node's probe (SpecNode)                                *)
(***************************************************************************)
\* C9: when the connectivity test ends in any status but "connected", the
\* probe is over: connectivity is the only sub-probe it ever started.
C9_NoProbeAfterFailedConnectivity ==
    /\ \A n \in Nodes :
           probeResult[n].status \notin {"connected", "absent"} =>
               (phase[n] = "done" /\ started[n] = <<"connectivity">>)
    /\ advResult.status \notin {"connected", "absent"} =>
           (advPhase = "done" /\ advStarted = <<"connectivity">>)

\* a probe that ended on a connect timeout
C9_Witness ==
    /\ advPhase = "done"
    /\ advResult.status = "timeout"
    /\ advStarted = <<"connectivity">>
    /\ advResult.download_speed_mbps = Absent

IsPrefix(a, b) == Len(a) <= Len(b) /\ a = SubSeq(b, 1, Len(a))

IndexOf(seq, x) ==
    IF \E i \in 1..Len(seq) : seq[i] = x
    THEN CHOOSE i \in 1..Len(seq) : seq[i] = x
    ELSE 0

\* C10 (as claimed): the throughput probe of comprehensive_test never
\* starts before the latency-stability probe has run.
C10_LatencyBeforeThroughput ==
    IndexOf(advStarted, "throughput") # 0 =>
        /\ IndexOf(advStarted, "latency") # 0
        /\ IndexOf(advStarted, "latency") < IndexOf(advStarted, "throughput")

\* C10 (amended): the sub-probes of comprehensive_test start in the order
\* connectivity, throughput, latency stability, unlock; a probe whose
\* connectivity test succeeded has started all four when it is done.
C10_ThroughputBeforeLatency ==
    /\ IsPrefix(advStarted, <<"connectivity", "throughput", "latency", "unlock">>)
    /\ (advPhase = "done" /\ advResult.status = "connected") =>
           Len(advStarted) = 4

\* a finished probe that ran the throughput probe and then the
\* latency-stability probe
C10_Witness ==
    /\ advPhase = "done"
    /\ advResult.status = "connected"
    /\ advResult.jitter # Absent
    /\ IndexOf(advStarted, "throughput") < IndexOf(advStarted, "latency")

\* C11 (as claimed): the dict a probe returns for a node whose connectivity
\* test did not end "connected" carries an error and a quality_score
\* equal to 0.
C11_FailedNodeHasErrorAndZeroScore ==
    /\ \A n \in Nodes :
           (pc = "direct" /\ phase[n] = "done"
                /\ probeResult[n].status # "connected") =>
               /\ probeResult[n].error # "none"
               /\ probeResult[n].quality_score = 0
    /\ (advPhase = "done" /\ advResult.status # "connected") =>
           /\ advResult.error # "none"
           /\ advResult.quality_score = 0

\* C19 (as claimed): once the connectivity status of a probe is connected,
\* whatever the geolocation lookup answers and however the unlock check
\* ends, the probe returns a result whose score is the one its scoring
\* function computes from the measured metrics, not an error outcome.
C19_EnrichmentFailureHarmless ==
    /\ \A n \in Nodes :
           (pc = "direct" /\ probeResult[n].status = "connected"
                /\ phase[n] \notin {"connectivity", "measure"}) =>
               /\ phase[n] = "done"
               /\ probeResult[n].quality_score =
                      _calculate_quality_score(probeResult[n])
    /\ (advPhase = "done" /\ advResult.status = "connected") =>
           /\ advResult.overall_status # "test_exception"
           /\ advResult.quality_score = _calculate_advanced_score(advResult)

\* C18: at every moment of a batch run the probes that have started and not
\* finished number at most max_workers, each on a thread of its own, and a
\* worker thread leaves the node it is running only once that node's probe
\* has completed (so it starts its next node only after that).
C18_WorkerLimit ==
    /\ [](/\ Cardinality(Running) <= max_workers
          /\ \A n \in Running : \E w \in PoolWorkers : workerTask[w] = n
          /\ \A v, w \in Workers :
                 (workerTask[v] # 0 /\ workerTask[v] = workerTask[w]) => v = w)
    /\ [][\A w \in Workers :
              (workerTask[w] # 0 /\ workerTask'[w] # workerTask[w]) =>
                  phase'[workerTask[w]] \in {"done", "raised"}]_vars

\* the pool is full and one of its workers is on its second node
C18_Witness ==
    /\ pc = "collecting"
    /\ numNodes > max_workers
    /\ Cardinality(Running) = max_workers
    /\ \E n \in InputNodes : Finished(n)
    /\ \E w \in PoolWorkers : workerTask[w] > max_workers

(***************************************************************************)
(* Claims about parse_single_node (SpecParse)                              *)
(***************************************************************************)
\* C12 (as claimed): every node parse_single_node returns has a non-empty
\* server, a non-empty port and the non-empty credential of its protocol:
\* uuid for vmess and vless, method and password for shadowsocks, password
\* for hysteria2 and trojan.
C12_MandatoryFieldsPresent ==
    (parseDone /\ IsNode(parsed)) =>
        /\ Truthy(parsed.server)
        /\ parsed.port # 0
        /\ parsed.protocol \in {"vmess", "vless"} => Truthy(parsed.uuid)
        /\ parsed.protocol = "shadowsocks" =>
               (Truthy(parsed.method) /\ Truthy(parsed.password))
        /\ parsed.protocol \in {"hysteria2", "trojan"} =>
               Truthy(parsed.password)

\* the port a link states lies outside 1..65535: "0", "65536" or "-1" after
\* the host, or such a number as the "port" of a vmess payload
StatesPortOutOfRange(p) ==
    IF p.scheme = "vmess"
    THEN LET doc == VmessDoc(p.payload)
         IN  /\ doc.kind = "object"
             /\ doc.port.kind = "int"
             /\ (doc.port.int < 1 \/ doc.port.int > MaxPort)
    ELSE /\ p.form # "base64_whole"
         /\ p.port \in {<<48>>, <<54, 53, 53, 51, 54>>, <<45, 49>>}

\* C13 (as claimed): the port of every returned node is in 1..65535, and a
\* link that states a port outside that range yields no node, whatever its
\* protocol.
C13_PortInRange ==
    parseDone =>
        /\ IsNode(parsed) => (parsed.port >= 1 /\ parsed.port <= MaxPort)
        /\ StatesPortOutOfRange(linkParts) => ~IsNode(parsed)

\* the prefixes that select the parser of a protocol
ProtocolPrefixes(protocol) ==
    CASE protocol = "vmess"       -> {VmessPrefix}
      [] protocol = "vless"       -> {VlessPrefix}
      [] protocol = "shadowsocks" -> {SsPrefix}
      [] protocol = "hysteria2"   -> {Hy2Prefix, Hysteria2Prefix}
      [] protocol = "trojan"      -> {TrojanPrefix}
      [] OTHER                    -> {}

KnownPrefixes ==
    {VmessPrefix, VlessPrefix, SsPrefix, Hy2Prefix, Hysteria2Prefix,
     TrojanPrefix}

\* C14: parse_single_node never lets an exception out; it returns a node
\* only for a link whose stripped text starts with one of the six prefixes,
\* the node's protocol is the one that prefix names, and any other link
\* gets None.
C14_DispatchOnPrefix ==
    parseDone =>
        /\ parsed.protocol # "raised"
        /\ IsNode(parsed) =>
               \E prefix \in ProtocolPrefixes(parsed.protocol) :
                   StartsWith(Strip(inputLink), prefix)
        /\ (\A prefix \in KnownPrefixes :
                ~StartsWith(Strip(inputLink), prefix)) => parsed = NoNode

\* a trojan link whose port makes the body of the parser raise: the
\* answer is None
C14_Witness ==
    /\ parseDone
    /\ parsed = NoNode
    /\ StartsWith(Strip(inputLink), TrojanPrefix)
    /\ TrojanBody(Strip(inputLink)) = Raised

\* the three forms a shadowsocks link with a userinfo is written in
SsUserinfoForms == {"plain", "base64", "base64_unpadded"}

\* C17 (as claimed): a method, password, host and port written as a plain,
\* a padded base64 and an unpadded base64 shadowsocks link parse to three
\* nodes with the same protocol, server, port, method and password.
C17_SsFormsAgree ==
    (/\ parseDone
     /\ linkParts.scheme = "ss"
     /\ linkParts.form \in SsUserinfoForms
     /\ linkParts.method # <<>>
     /\ linkParts.password # <<>>
     /\ linkParts.host # <<>>
     /\ linkParts.port \in {None, <<49>>, <<54, 53, 53, 51, 53>>}) =>
        /\ IsNode(parsed)
        /\ \A form \in SsUserinfoForms :
               parse_single_node(
                   BuildLink([linkParts EXCEPT !.form = form])) = parsed

(***************************************************************************)
(* Claims about resolving a subscription (SpecSub)                         *)
(***************************************************************************)
NonEmptyLines(lines) == SelectSeq(lines, LAMBDA l : Strip(l) # <<>>)

\* the nodes of the lines that parse, in line order
ExpectedNodes(resolver, lines) ==
    LET kept == NonEmptyLines(lines)
    IN  SelectSeq([i \in 1..Len(kept) |-> LineParser(resolver, Strip(kept[i]))],
                  IsNode)

\* C15 (as claimed): for a body of L non-empty lines the returned nodes are
\* exactly the nodes of the lines that parse, in line order, and their
\* number plus the number of recorded skipped lines is L.
C15_AllParseableLinesReturned ==
    (subPc = "done" /\ subFetch = "ok") =>
        /\ subOutcome.nodes = ExpectedNodes(subResolver, subLines)
        /\ Len(subOutcome.nodes) + subSkipLog = Len(NonEmptyLines(subLines))

\* text is base64 as RFC 4648 writes it (white space between the characters
\* aside): a whole number of quads of alphabet characters, "=" only as the
\* last one or two characters
IsBase64Text(text) ==
    LET t   == SelectSeq(text, LAMBDA c : c \notin Whitespace)
        n   == Len(t)
        pad == IF n >= 2 /\ t[n] = Chr.equals /\ t[n - 1] = Chr.equals THEN 2
               ELSE IF n >= 1 /\ t[n] = Chr.equals THEN 1
               ELSE 0
    IN  /\ n % 4 = 0
        /\ \A i \in 1..(n - pad) : B64Value(t[i]) # Absent

\* the text whose lines are to be parsed: the decoded text of a body that is
\* base64 of UTF-8 text, the body itself in every other case
TextToSplit(body) ==
    IF IsBase64Text(body) /\ B64DecodeUtf8(body) # None
    THEN B64DecodeUtf8(body)
    ELSE body

\* C24: a body that is valid base64 of UTF-8 text is split into the lines of
\* its decoded text; every other body, a plain text of node links included,
\* is split into lines as it was received.
C24_DecodedOnlyWhenBase64 ==
    [][(subPc = "content" /\ subPc' = "lines") =>
           subPending' = SplitLines(Strip(TextToSplit(subContent)))]_vars

\* 403, timeout, any other failure
FailureClass(fetch) ==
    IF fetch \in {"http_403", "timeout"} THEN fetch ELSE "other"

\* C16 (as claimed): what the caller gets for a failed fetch differs from
\* what it gets for a failure of another class (403, timeout, other) and
\* from what it gets for a fetched subscription with no parseable node.
C16_FetchFailuresDistinct ==
    (subPc = "done" /\ subFetch # "ok") =>
        /\ \A fetch \in FetchOutcomes \ {"ok"} :
               FailureClass(fetch) # FailureClass(subFetch) =>
                   FailureOutcome(subResolver, fetch) # subOutcome
        /\ SuccessOutcome(subResolver, <<>>) # subOutcome

(***************************************************************************)
(* Claims about the throughput probe (SpecSpeed)                           *)
(***************************************************************************)
\* C20 (as claimed): endpoint k+1 is attempted only if the attempt on
\* endpoint k failed, so every attempt but the last one failed.
C20_NextOnlyAfterFailure ==
    speedDone =>
        \A k \in 1..(urlsAttempted - 1) : urlOutcomes[k] = Absent

\* C20 (amended): the probe walks at most the first three endpoints in
\* order; endpoint k+1 is attempted exactly when every attempt up to k
\* failed or measured a speed not above the tester's threshold (10 Mbps in
\* RealSpeedTester, 20 Mbps in AdvancedSpeedTester); no endpoint is
\* attempted after one that measures above the threshold.
C20_NextUnlessGoodEnough ==
    speedDone =>
        /\ urlsAttempted \in 1..SpeedUrls
        /\ \A k \in 1..(SpeedUrls - 1) :
               k + 1 <= urlsAttempted <=>
                   \A j \in 1..k :
                       \/ urlOutcomes[j] = Absent
                       \/ urlOutcomes[j] <= GoodEnough(speedTester)

\* a second endpoint was attempted after a success below the threshold, and
\* the probe stopped at an endpoint above it with one endpoint left
C20_Witness ==
    /\ speedDone
    /\ urlsAttempted = 2
    /\ urlOutcomes[1] = Mbps(5)
    /\ urlOutcomes[2] = Mbps(15)
    /\ speedTester = "real"

\* the result dict a tester builds from what its throughput probe returned:
\* speedtester.py lines 338-379, advanced_speedtester.py lines 177-193
SpeedResult(tester, best) ==
    IF tester = "real"
    THEN LET r == RealWithSpeed(NewResult(1), best, Ms(150))
         IN  [download_speed_mbps |-> r.download_speed_mbps,
              failed_marker |-> r.speed_error # "none"]
    ELSE LET r == AdvWithSpeed(NewAdvResult, best)
         IN  [download_speed_mbps |-> r.download_speed_mbps,
              failed_marker |-> r.speed_test_error # "none"]

\* C21: the result carries the speed-test-failed marker, with throughput 0,
\* exactly when every endpoint attempted failed; the marker is absent
\* whenever at least one attempt succeeded, however low the speed it measured.
C21_FailedMarkerIffAllFailed ==
    speedDone =>
        LET r == SpeedResult(speedTester, speedBest)
            allFailed == \A k \in 1..urlsAttempted : urlOutcomes[k] = Absent
        IN  /\ r.failed_marker <=> allFailed
            /\ r.failed_marker => r.download_speed_mbps = 0

(***************************************************************************)
(* Claims about the latency-stability probe (SpecStab)                     *)
(***************************************************************************)
StabSucceeded == SelectSeq(stabSamples, LAMBDA x : x # Absent)
StabFailed    == SelectSeq(stabSamples, LAMBDA x : x = Absent)

\* C22: the probe makes exactly `count` connects and never repeats a failed
\* one: successes plus failures is count; the packet loss reported is
\* failures / count as a percentage within 0..100; when a connect succeeded,
\* the jitter reported is the maximum minus the minimum of the successful
\* samples and minimum <= mean <= maximum.
C22_StabilityReport ==
    /\ Len(stabSamples) <= StabilityCount
    /\ stabPc = "done" =>
        /\ Len(StabSucceeded) + Len(StabFailed) = StabilityCount
        /\ stabReport.packet_loss * StabilityCount
               = Len(StabFailed) * Pct(100)
        /\ stabReport.packet_loss \in 0..Pct(100)
        /\ StabSucceeded # <<>> =>
            /\ stabReport.jitter
                   = SeqMax(StabSucceeded) - SeqMin(StabSucceeded)
            /\ stabReport.min_latency = SeqMin(StabSucceeded)
            /\ stabReport.max_latency = SeqMax(StabSucceeded)
            /\ stabReport.min_latency <= stabReport.avg_latency
            /\ stabReport.avg_latency <= stabReport.max_latency

\* a finished probe with failed connects and successful ones of different
\* latency
C22_Witness ==
    /\ stabPc = "done"
    /\ Len(StabFailed) = 2
    /\ stabReport.jitter > 0
    /\ stabReport.min_latency < stabReport.avg_latency
    /\ stabReport.avg_latency < stabReport.max_latency

(***************************************************************************)
(* Claims about the connectivity test (SpecConn)                           *)
(***************************************************************************)
\* C23: every attempt is classified as exactly one of connected, timeout,
\* failed or error; a connect that does not complete within the connect
\* timeout is classified timeout; a host name that does not resolve is
\* classified failed with the DNS reason and no connect is attempted; a
\* refused connect is classified failed with another reason.
C23_ConnectClassified ==
    connPc = "done" =>
        /\ connResult.status \in {"connected", "timeout", "failed", "error"}
        /\ connEvent = "timeout" => connResult.status = "timeout"
        /\ connEvent = "dns_failed" =>
               /\ connResult.status = "failed"
               /\ connResult.error = "dns"
               /\ \A i \in 1..Len(connTrace) : connTrace[i] # "connect"
        /\ connEvent = "refused" =>
               /\ connResult.status = "failed"
               /\ connResult.error # "dns"

(***************************************************************************)
(* Claims about one throughput attempt (SpecStream)                        *)
(***************************************************************************)
\* C25: an attempt cut short by the size cap, by the duration cap or by the
\* request's timeout after bytes were received reports the throughput of
\* the bytes received over the time passed, and is not reported as failed.
C25_PartialBytesCounted ==
    (/\ streamPc = "done"
     /\ streamEnd \in {"size_cap", "duration_cap", "timeout"}
     /\ streamDownloaded > 0) =>
        /\ streamResult.status = "success"
        /\ streamResult.download_speed_mbps =
               RoundDiv(streamDownloaded * Mbps(2), streamElapsed)

(***************************************************************************)
(* Claims about the scoring functions (SpecScore, SpecBucket)              *)
(***************************************************************************)
\* the scoring function of scoreTester applied to another dict
ScoreOf(tester, result) ==
    IF tester = "real" THEN _calculate_quality_score(result)
    ELSE _calculate_advanced_score(result)

\* C4 (as claimed): a result whose status is not "connected" scores exactly
\* 0, whatever its other fields hold or default to.
C4_NotConnectedScoresZero ==
    (scored /\ scoreInput.status # "connected") => qualityScore = 0

\* C5: the scoring function returns a score between 0 and 100 for every
\* result dict, with any subset of the fields it reads absent.
C5_ScoreBounded ==
    scored => (qualityScore >= 0 /\ qualityScore <= 100)

\* the sum of the categories exceeded 100 and the result is 100
C5_Witness ==
    /\ scored
    /\ scoreTester = "real"
    /\ RealLatencyPoints(scoreInput) + RealSpeedPoints(scoreInput)
           + RealFirstBytePoints(scoreInput) > 100
    /\ qualityScore = 100

\* C6: of two result dicts equal in every field but download_speed_mbps,
\* the one with the higher speed scores at least as much.
C6_MonotoneInThroughput ==
    (scored /\ scoreInput.download_speed_mbps # Absent) =>
        \A v \in SpeedValues \ {Absent} :
            v >= scoreInput.download_speed_mbps =>
                ScoreOf(scoreTester,
                        [scoreInput EXCEPT !.download_speed_mbps = v])
                    >= qualityScore

\* a higher speed that scores strictly more, for a result that is not
\* connected and for one that is
C6_Witness ==
    /\ scored
    /\ scoreInput.status = "connected"
    /\ scoreInput.download_speed_mbps = Mbps(8)
    /\ ScoreOf(scoreTester,
               [scoreInput EXCEPT !.download_speed_mbps = Mbps(30)])
           > qualityScore

\* C7: every score in 0..100 maps to a status of the ordered list, and a
\* higher score never maps to a status lower in the list.
C7_BucketMonotone ==
    /\ [](\E i \in 1..Len(StatusBuckets) : StatusBuckets[i] = bucketStatus)
    /\ [][BucketRank(bucketStatus') >= BucketRank(bucketStatus)]_vars

\* the walk has gone through every threshold up to the top bucket
C7_Witness ==
    /\ bucketScore = MaxScore
    /\ bucketStatus = StatusBuckets[Len(StatusBuckets)]

\* Example 3 of the spec: connected, 30 ms, 80 mbps, jitter 5 ms, no
\* packet loss, no unlock_test.
Example3 ==
    [status |-> "connected", latency_ms |-> Ms(30),
     download_speed_mbps |-> Mbps(80), first_byte_latency |-> Absent,
     jitter |-> Ms(5), packet_loss |-> 0, unlock_rate |-> Absent]

\* C8 (as claimed): Example 3 is given the top status of the list.
C8_Example3TopBucket ==
    (scored /\ scoreTester = "advanced" /\ scoreInput = Example3) =>
        overallStatus = StatusBuckets[Len(StatusBuckets)]

\* C8 (amended): Example 3 scores 85 and is given the second status from
\* the top (threshold 80), not the top one (threshold 90).
C8_Example3SecondBucket ==
    (scored /\ scoreTester = "advanced" /\ scoreInput = Example3) =>
        /\ qualityScore = 85
        /\ overallStatus = StatusBuckets[Len(StatusBuckets) - 1]

C8_Witness ==
    scored /\ scoreTester = "advanced" /\ scoreInput = Example3

\* the score of the same dict without an unlock summary
ScoreWithoutUnlock(result) ==
    _calculate_advanced_score([result EXCEPT !.unlock_rate = Absent])

\* C26: the unlock bonus does not decrease when the supplied unlock rate
\* grows, adds at most 10 points to the score for every supplied rate, rates
\* above 100 included, and adds nothing when no unlock summary is supplied.
C26_UnlockBonusCapped ==
    (scored /\ scoreTester = "advanced") =>
        /\ AdvUnlockPoints(scoreInput) \in 0..10
        /\ qualityScore - ScoreWithoutUnlock(scoreInput) \in 0..10
        /\ scoreInput.unlock_rate = Absent =>
               qualityScore = ScoreWithoutUnlock(scoreInput)
        /\ \A rate \in UnlockValues :
               rate <= scoreInput.unlock_rate =>
                   AdvUnlockPoints([scoreInput EXCEPT !.unlock_rate = rate])
                       <= AdvUnlockPoints(scoreInput)

(***************************************************************************)
(* Claims about the quota metadata (SpecQuota)                             *)
(***************************************************************************)
\* C27: whatever the subscription-userinfo header holds (no header, a
\* well-formed one, total=0, a value that is not a number, a missing key),
\* the analysis of a fetched body returns status success with the nodes it
\* returns without the header; only the quota fields differ.
C27_QuotaNeverDecides ==
    quotaPc = "done" =>
        /\ quotaOutcome.status = "success"
        /\ quotaOutcome.nodes =
               _parse_subscription_content(BodyText(quotaLines, FALSE))

(***************************************************************************)
(* Claims about the order of the returned list (Spec)                      *)
(***************************************************************************)
\* C28: the list test_multiple_nodes returns is in non-increasing order of
\* quality score, a result without a score counting as 0, whatever the
\* order in which the probes completed.
C28_ReturnedListSorted ==
    pc = "returned" =>
        \A i \in 1..(Len(results) - 1) :
            SortKey(results[i]) >= SortKey(results[i + 1])

\* a returned list of three different scores, the node submitted last
\* first and a result without a score last
C28_Witness ==
    /\ pc = "returned"
    /\ Len(results) = 3
    /\ SortKey(results[1]) > SortKey(results[2])
    /\ SortKey(results[2]) > SortKey(results[3])
    /\ results[1].node = 3
    /\ results[3].quality_score = Absent

(***************************************************************************)
(* Claims about the two link parsers (SpecParse)                           *)
(***************************************************************************)
\* the credential a protocol authenticates with
PrimaryCredential(node) ==
    IF node.protocol \in {"vmess", "vless"} THEN node.uuid ELSE node.password

\* C29: parser.parse_single_node returns a descriptor for a link exactly
\* when SubscriptionAnalyzer._parse_single_node returns one, and the two
\* descriptors agree on server, port and primary credential.
C29_ParsersAgree ==
    parseDone =>
        /\ IsNode(parsed) <=> IsNode(_parse_single_node(inputLink))
        /\ IsNode(parsed) =>
               /\ _parse_single_node(inputLink).server = parsed.server
               /\ _parse_single_node(inputLink).port = parsed.port
               /\ PrimaryCredential(_parse_single_node(inputLink))
                      = PrimaryCredential(parsed)

(***************************************************************************)
(* Claims about batch_test_nodes (SpecClash)                               *)
(***************************************************************************)
\* C30: after batch_test_nodes has returned, on every path, clash_process
\* is None and session is None; when the core started, the returned list
\* has exactly one entry per input node, in input order.
C30_NothingLeftBehind ==
    clashPc = "returned" =>
        /\ clash_process = "None"
        /\ session = "None"
        /\ coreStarted =>
               /\ Len(clashResults) = clashNodes
               /\ \A i \in 1..clashNodes : clashResults[i].node = i

====
